---- MODULE Spec2Model ----
(***************************************************************************)
(* Streaming inference response pipeline of phone_agent.model:             *)
(*   - ModelClient.request / ModelClient._parse_response   (client.py)     *)
(*   - openai_request                                (openai_handler.py)   *)
(*   - gemini_request, map_gemini_to_internal        (gemini_handler.py)   *)
(*                                                                         *)
(* Python strings are sequences of one-character strings, so that `in`,    *)
(* split, endswith, replace and strip are computed character by character. *)
(* Optional values (None or a value) are sequences of length 0 or 1.       *)
(***************************************************************************)
EXTENDS Integers, Sequences, FiniteSets, TLC

VARIABLES
    api_type,               \* config.api_type
    adapter,                \* None or the adapter request has called
    http_requests,          \* number of requests.post calls made
    exception,              \* None or the exception that left request
    pc,                     \* position of the caller in the modelled routine
    line,                   \* what response.iter_lines() yielded last: None
                            \* before the first line and when it yielded none
    carried,                \* the first and the last non-empty signature the
                            \* server attached to a delta or part read so far,
                            \* and the first function call
    rest,                   \* text the server has not delivered yet
    raw_content,            \* raw_content (the content argument in ParseSpec)
    buffer,                 \* buffer: pending text not yet printed
    printed,                \* thinking text written by print(..., end="")
    newlines,               \* number of bare print() calls (phase separator)
    in_action_phase,
    first_token_received,
    time_to_first_token,    \* None or a duration
    time_to_thinking_end,   \* None or a duration
    total_time,             \* None until request computes it
    thought_signature,      \* None or a signature
    structured_action,      \* None or the mapped action
    tool_call_id,           \* None or the id of the function call
    fc,                     \* None or the functionCall being mapped
    server,                 \* the signatures and function calls the server uses
    now,                    \* last reading of time.time() - start_time
    thinking,               \* ModelResponse.thinking
    action,                 \* ModelResponse.action
    messages,               \* the history given to gemini_request
    next_msg,               \* index of the message its for loop takes next
    contents,               \* contents
    system_instruction,     \* None or the system instruction
    message,                \* None or the message MessageBuilder works on
    state,                  \* the global state dict of the web console
    threads                 \* the threads started for run_agent_thread

vars == <<api_type, adapter, http_requests, exception, pc, line, carried, rest, raw_content, buffer, printed, newlines,
          in_action_phase, first_token_received, time_to_first_token,
          time_to_thinking_end, total_time, thought_signature,
          structured_action, tool_call_id, fc, server, now, thinking,
          action, messages, next_msg, contents, system_instruction,
          message, state, threads>>

\* the variables of the serialization of the history
history == <<messages, next_msg, contents, system_instruction>>

----------------------------------------------------------------------------
(* Bounds of the model *)

\* largest number of pieces a streamed text is built from
MaxPieces == 2
\* largest number of pieces an argument of _parse_response is built from
MaxParsePieces == 3
\* largest reading of the clock, in ticks after start_time
MaxTime == 1
\* largest max_steps a /start request of the web console asks for
MaxSteps == 2
\* largest number of run_agent_thread threads alive at a time
MaxWorkers == 2

----------------------------------------------------------------------------
(* Python values *)

None == << >>
Some(x) == <<x>>
IsNone(o) == o = << >>
Val(o) == o[1]

\* the empty str
EmptyStr == << >>

\* str.strip() with no argument removes these from both ends
Whitespace == {" ", "\n", "\t", "\r"}

\* the state dict of the web console as the module creates it
InitialState ==
    [history |-> << >>, running |-> FALSE, current_step |-> 0,
     current_task |-> "", config |-> [max_steps |-> 15]]

\* the threads of the web console; a thread that has not been started or has
\* ended is idle.  alone records that no other thread was alive with it
Workers == 1..MaxWorkers
IdleThread ==
    [pc |-> "idle", task |-> "", max_steps |-> 0, finished |-> FALSE,
     success |-> FALSE, alone |-> TRUE]
NoThreads == [w \in Workers |-> IdleThread]

----------------------------------------------------------------------------
(* Literals of the source *)

FINISH_MARKER == <<"f", "i", "n", "i", "s", "h", "(", "m", "e", "s", "s", "a", "g", "e", "=">>
DO_MARKER == <<"d", "o", "(", "a", "c", "t", "i", "o", "n", "=">>
action_markers == <<FINISH_MARKER, DO_MARKER>>
ANSWER_OPEN == <<"<", "a", "n", "s", "w", "e", "r", ">">>
ANSWER_CLOSE == <<"<", "/", "a", "n", "s", "w", "e", "r", ">">>
THINK_OPEN == <<"<", "t", "h", "i", "n", "k", ">">>
THINK_CLOSE == <<"<", "/", "t", "h", "i", "n", "k", ">">>

----------------------------------------------------------------------------
(* str operations *)

\* s[i:] for a 0-based i
Drop(s, i) == SubSeq(s, i + 1, Len(s))

\* s[:i]
Take(s, i) == SubSeq(s, 1, i)

\* sub occurs in s at the 1-based position i
OccursAt(s, sub, i) ==
    /\ i >= 1
    /\ i + Len(sub) - 1 <= Len(s)
    /\ SubSeq(s, i, i + Len(sub) - 1) = sub

\* the positions at which sub occurs in s
Occurrences(s, sub) == {i \in 1..(Len(s) - Len(sub) + 1) : OccursAt(s, sub, i)}

\* sub in s
Contains(s, sub) == \E i \in 1..(Len(s) - Len(sub) + 1) : OccursAt(s, sub, i)

\* str.find, 1-based; 0 when sub does not occur
Find(s, sub) ==
    IF ~Contains(s, sub) THEN 0
    ELSE CHOOSE i \in 1..(Len(s) - Len(sub) + 1) :
            /\ OccursAt(s, sub, i)
            /\ \A j \in 1..(i - 1) : ~OccursAt(s, sub, j)

\* s.startswith(p)
StartsWith(s, p) == OccursAt(s, p, 1)

\* s.endswith(p)
EndsWith(s, p) == Len(p) <= Len(s) /\ SubSeq(s, Len(s) - Len(p) + 1, Len(s)) = p

\* s.split(sep, 1): one part when sep is absent, else the text before the first
\* occurrence and the text after it
Split1(s, sep) ==
    LET at == Find(s, sep)
    IN  IF at # 0 THEN <<Take(s, at - 1), Drop(s, at - 1 + Len(sep))>> ELSE <<s>>

\* s.replace(old, ""): the non-overlapping occurrences, leftmost first
RECURSIVE Remove(_, _)
Remove(s, old) ==
    IF Len(s) < Len(old) THEN s
    ELSE IF StartsWith(s, old) THEN Remove(Drop(s, Len(old)), old)
    ELSE <<Head(s)>> \o Remove(Tail(s), old)

RECURSIVE LStrip(_)
LStrip(s) ==
    IF s # << >> /\ Head(s) \in Whitespace THEN LStrip(Tail(s)) ELSE s

RECURSIVE RStrip(_)
RStrip(s) ==
    IF s # << >> /\ s[Len(s)] \in Whitespace THEN RStrip(Take(s, Len(s) - 1)) ELSE s

\* s.strip()
Strip(s) == RStrip(LStrip(s))

\* the concatenation of a sequence of strs
RECURSIVE Concat(_)
Concat(ss) == IF ss = << >> THEN << >> ELSE Head(ss) \o Concat(Tail(ss))

----------------------------------------------------------------------------
(* ModelClient._parse_response *)

\* Rules 1 and 2 swapped: the do-call marker is looked for first
MarkerRulesDoFirst == <<DO_MARKER, FINISH_MARKER>>

\* the markers of rules 1 and 2, in the order the rules are tried
MarkerRules == <<FINISH_MARKER, DO_MARKER>>

\* the action is taken from after the marker, so that the marker is lost
SplitAtMarkerDropsMarker(content, marker) ==
    LET parts == Split1(content, marker)
    IN  [thinking |-> Strip(parts[1]),
         action   |-> Strip(Remove(parts[2], ANSWER_CLOSE))]

\* the body of rule 1 and of rule 2
SplitAtMarker(content, marker) ==
    LET parts == Split1(content, marker)
    IN  [thinking |-> Strip(parts[1]),
         action   |-> Strip(Remove(marker \o parts[2], ANSWER_CLOSE))]

\* rule 3: the legacy tags
SplitAtAnswerTag(content) ==
    LET parts == Split1(content, ANSWER_OPEN)
    IN  [thinking |-> Strip(Remove(Remove(parts[1], THINK_OPEN), THINK_CLOSE)),
         action   |-> Strip(Remove(parts[2], ANSWER_CLOSE))]

\* rule 4 with the content trimmed
NoMarkerStripped(content) == [thinking |-> EmptyStr, action |-> Strip(content)]

\* rule 4: no markers found
NoMarker(content) == [thinking |-> EmptyStr, action |-> content]

\* a call marker is in s
HasCallMarker(s) == Contains(s, FINISH_MARKER) \/ Contains(s, DO_MARKER)

\* the blank check remembers that the method ran before: every call after the
\* first one sees a blank content
IsBlankOnceCalled(content) == pc # "parse_call" \/ Strip(content) = EmptyStr

\* the content trimmed only when it is empty
IsBlankOnlyEmpty(content) == content = EmptyStr

\* not content.strip()
IsBlank(content) == Strip(content) = EmptyStr

parse_response(content) ==
    IF IsBlank(content) THEN [thinking |-> EmptyStr, action |-> EmptyStr]
    ELSE IF Contains(content, MarkerRules[1]) THEN SplitAtMarker(content, MarkerRules[1])
    ELSE IF Contains(content, MarkerRules[2]) THEN SplitAtMarker(content, MarkerRules[2])
    ELSE IF Contains(content, ANSWER_OPEN) THEN SplitAtAnswerTag(content)
    ELSE NoMarker(content)

----------------------------------------------------------------------------
(* The arguments _parse_response is applied to *)

\* the fixtures of the end-to-end scenarios
LaunchText == <<"I", " ", "s", "h", "o", "u", "l", "d", " ", "o", "p", "e", "n", " ", "t", "h", "e", " ", "a", "p", "p", ".", "\n", "d", "o", "(", "a", "c", "t", "i", "o", "n", "=", "\"", "L", "a", "u", "n", "c", "h", "\"", ",", " ", "a", "p", "p", "=", "\"", "M", "e", "s", "s", "a", "g", "e", "s", "\"", ")">>
LaunchThinking == <<"I", " ", "s", "h", "o", "u", "l", "d", " ", "o", "p", "e", "n", " ", "t", "h", "e", " ", "a", "p", "p", ".">>
LaunchAction == <<"d", "o", "(", "a", "c", "t", "i", "o", "n", "=", "\"", "L", "a", "u", "n", "c", "h", "\"", ",", " ", "a", "p", "p", "=", "\"", "M", "e", "s", "s", "a", "g", "e", "s", "\"", ")">>
LegacyText == <<"<", "t", "h", "i", "n", "k", ">", "c", "o", "n", "s", "i", "d", "e", "r", "i", "n", "g", "<", "/", "t", "h", "i", "n", "k", ">", "<", "a", "n", "s", "w", "e", "r", ">", "B", "a", "c", "k", "<", "/", "a", "n", "s", "w", "e", "r", ">">>
LegacyThinking == <<"c", "o", "n", "s", "i", "d", "e", "r", "i", "n", "g">>
LegacyAction == <<"B", "a", "c", "k">>

ParsePieces ==
    { <<"x">>, <<" ">>, <<"\n">>, DO_MARKER, FINISH_MARKER,
      ANSWER_OPEN, ANSWER_CLOSE, THINK_OPEN, THINK_CLOSE }

\* the texts made of at most n pieces
PieceSeqs(pieces, n) == UNION {[1..k -> pieces] : k \in 0..n}

ParseInputs ==
    {Concat(ps) : ps \in PieceSeqs(ParsePieces, MaxParsePieces)}
        \cup {LaunchText, LegacyText}

----------------------------------------------------------------------------
(* ParseSpec: _parse_response applied to one argument *)

ParseInit ==
    /\ pc = "parse_call"
    /\ raw_content \in ParseInputs
    /\ api_type = "openai"
    /\ adapter = None
    /\ http_requests = 0
    /\ exception = None
    /\ line = None
    /\ carried = [first |-> None, last |-> None, call |-> None]
    /\ rest = EmptyStr
    /\ buffer = EmptyStr
    /\ printed = EmptyStr
    /\ newlines = 0
    /\ in_action_phase = FALSE
    /\ first_token_received = FALSE
    /\ time_to_first_token = None
    /\ time_to_thinking_end = None
    /\ total_time = None
    /\ thought_signature = None
    /\ structured_action = None
    /\ tool_call_id = None
    /\ fc = None
    /\ server = [status |-> 200, sigs |-> {}, calls |-> {}, lines |-> {},
                 thought |-> "any", ticks |-> 0]
    /\ now = 0
    /\ thinking = EmptyStr
    /\ action = EmptyStr
    /\ messages = << >>
    /\ next_msg = 1
    /\ contents = << >>
    /\ system_instruction = None
    /\ message = None
    /\ state = InitialState
    /\ threads = NoThreads

ParseResponse ==
    /\ pc = "parse_call"
    /\ LET parsed == parse_response(raw_content)
       IN  thinking' = parsed.thinking /\ action' = parsed.action
    /\ pc' = "parse_return"
    /\ UNCHANGED <<messages, next_msg, contents, system_instruction, message, state, threads, api_type, adapter, http_requests, exception, line, carried,
                   rest, raw_content, buffer, printed, newlines,
                   in_action_phase, first_token_received, time_to_first_token,
                   time_to_thinking_end, total_time, thought_signature,
                   structured_action, tool_call_id, fc, server, now>>

\* a call of _parse_response on another text: its result goes to that call's
\* caller, and the method writes no field of the client
ParseOther ==
    /\ pc \in {"parse_return", "parse_again"}
    /\ \E other \in {LaunchText, LegacyText, EmptyStr} :
            parse_response(other) \in [thinking : Seq(STRING), action : Seq(STRING)]
    /\ pc' = "parse_other"
    /\ UNCHANGED <<messages, next_msg, contents, system_instruction, message, state, threads, api_type, adapter, http_requests, exception, line, carried,
                   rest, raw_content, buffer, printed, newlines,
                   in_action_phase, first_token_received, time_to_first_token,
                   time_to_thinking_end, total_time, thought_signature,
                   structured_action, tool_call_id, fc, server, now,
                   thinking, action>>

\* a further call of _parse_response on the same text
ParseAgain ==
    /\ pc \in {"parse_return", "parse_other"}
    /\ LET parsed == parse_response(raw_content)
       IN  thinking' = parsed.thinking /\ action' = parsed.action
    /\ pc' = "parse_again"
    /\ UNCHANGED <<messages, next_msg, contents, system_instruction, message, state, threads, api_type, adapter, http_requests, exception, line, carried,
                   rest, raw_content, buffer, printed, newlines,
                   in_action_phase, first_token_received, time_to_first_token,
                   time_to_thinking_end, total_time, thought_signature,
                   structured_action, tool_call_id, fc, server, now>>

ParseNext == ParseResponse \/ ParseOther \/ ParseAgain

ParseSpec == ParseInit /\ [][ParseNext]_vars

----------------------------------------------------------------------------
(* The scanner shared by the adapters.  The locals of an adapter are one      *)
(* record s; an operator that reads the clock yields the set of the states    *)
(* it can end in, one per reading.  time.time() never runs backwards here:    *)
(* a reading is at least the previous one.                                    *)

\* time.time() - start_time: any reading from the last one on, up to the time
\* the server takes
ClockReadings(s) == s.now..server.ticks

\* the first-token duration taken at every text, flag or no flag
FirstTokenEveryText(s) ==
    { [s EXCEPT !.time_to_first_token = Some(t),
                !.first_token_received = TRUE,
                !.now = t] : t \in ClockReadings(s) }

\* if not first_token_received: time_to_first_token = ...; flag = True
FirstToken(s) ==
    IF ~s.first_token_received
    THEN { [s EXCEPT !.time_to_first_token = Some(t),
                     !.first_token_received = TRUE,
                     !.now = t] : t \in ClockReadings(s) }
    ELSE {s}

\* the phase-transition duration never taken
ThinkingEndNotTaken(s) == {s}

\* if time_to_thinking_end is None: time_to_thinking_end = ...
ThinkingEnd(s) ==
    IF IsNone(s.time_to_thinking_end)
    THEN { [s EXCEPT !.time_to_thinking_end = Some(t), !.now = t] : t \in ClockReadings(s) }
    ELSE {s}

\* the marker search made for the first marker of the list only
MarkerInFirstOnly(buf) ==
    IF Contains(buf, action_markers[1]) THEN Some(action_markers[1]) ELSE None

\* for marker in action_markers: if marker in buffer: ... break
\* None when no marker is in the buffer, else the first marker of the list
\* that is
MarkerIn(buf) ==
    IF Contains(buf, action_markers[1]) THEN Some(action_markers[1])
    ELSE IF Contains(buf, action_markers[2]) THEN Some(action_markers[2])
    ELSE None

\* the prefix check made for the first marker of the list only
IsPotentialMarkerFirstOnly(buf) ==
    \E i \in 1..(Len(action_markers[1]) - 1) :
        EndsWith(buf, Take(action_markers[1], i))

\* for marker in action_markers: for i in range(1, len(marker)):
\*     if buffer.endswith(marker[:i]): is_potential_marker = True
IsPotentialMarker(buf) ==
    \E m \in 1..Len(action_markers) :
        \E i \in 1..(Len(action_markers[m]) - 1) :
            EndsWith(buf, Take(action_markers[m], i))

\* the scan with the whole buffer printed when a marker is found
ScanBufferPrintsAll(s, text) ==
    LET buf == s.buffer \o text
        found == MarkerIn(buf)
    IN  IF ~IsNone(found)
        THEN ThinkingEnd([s EXCEPT !.buffer = buf,
                                   !.printed = @ \o buf,
                                   !.newlines = @ + 1,
                                   !.in_action_phase = TRUE])
        ELSE IF IsPotentialMarker(buf) THEN { [s EXCEPT !.buffer = buf] }
        ELSE { [s EXCEPT !.printed = @ \o buf, !.buffer = EmptyStr] }

\* the scan with only the new text printed at a flush
ScanBufferPrintsFragment(s, text) ==
    LET buf == s.buffer \o text
        found == MarkerIn(buf)
    IN  IF ~IsNone(found)
        THEN ThinkingEnd([s EXCEPT !.buffer = buf,
                                   !.printed = @ \o Split1(buf, Val(found))[1],
                                   !.newlines = @ + 1,
                                   !.in_action_phase = TRUE])
        ELSE IF IsPotentialMarker(buf) THEN { [s EXCEPT !.buffer = buf] }
        ELSE { [s EXCEPT !.printed = @ \o text, !.buffer = EmptyStr] }

\* buffer += text, the marker search, the potential-marker check and the flush
ScanBuffer(s, text) ==
    LET buf == s.buffer \o text
        found == MarkerIn(buf)
    IN  IF ~IsNone(found)
        THEN ThinkingEnd([s EXCEPT !.buffer = buf,
                                   !.printed = @ \o Split1(buf, Val(found))[1],
                                   !.newlines = @ + 1,
                                   !.in_action_phase = TRUE])
        ELSE IF IsPotentialMarker(buf) THEN { [s EXCEPT !.buffer = buf] }
        ELSE { [s EXCEPT !.printed = @ \o buf, !.buffer = EmptyStr] }

\* the text fed with the phase set anew from each text of the action phase
FeedTextPhaseFollowsText(s, text) ==
    UNION { IF s1.in_action_phase
            THEN { [s1 EXCEPT !.in_action_phase = ~IsNone(MarkerIn(text))] }
            ELSE ScanBuffer(s1, text)
            : s1 \in FirstToken([s EXCEPT !.raw_content = @ \o text]) }

\* the text scanned in the action phase too
FeedTextAlwaysScans(s, text) ==
    UNION { ScanBuffer(s1, text)
            : s1 \in FirstToken([s EXCEPT !.raw_content = @ \o text]) }

\* raw_content += text, the first-token check, then the scan unless the
\* action phase has begun
FeedText(s, text) ==
    UNION { IF s1.in_action_phase THEN {s1} ELSE ScanBuffer(s1, text)
            : s1 \in FirstToken([s EXCEPT !.raw_content = @ \o text]) }

\* if sig: an absent signature and the empty one are not taken
Truthy(sig) == ~IsNone(sig) /\ Val(sig) # ""

\* the signature kept once taken
TakeSignatureFirstWins(s, sig) ==
    IF Truthy(sig) /\ IsNone(s.thought_signature)
    THEN [s EXCEPT !.thought_signature = sig] ELSE s

\* the signature taken as the end of the thinking phase
TakeSignatureEndsThinking(s, sig) ==
    IF Truthy(sig)
    THEN [s EXCEPT !.thought_signature = sig, !.in_action_phase = TRUE] ELSE s

\* sig = ...; if sig: thought_signature = sig
TakeSignature(s, sig) ==
    IF Truthy(sig) THEN [s EXCEPT !.thought_signature = sig] ELSE s

\* then(S, F): F applied to every state of S that has not raised
Then(S, F(_)) == UNION { IF s.raised THEN {s} ELSE F(s) : s \in S }

----------------------------------------------------------------------------
(* The lines of an event stream.  A line is the pair of whether it starts     *)
(* with "data: " and of line[6:].strip() when it does, the line when not.    *)

EmptyLine == [prefix |-> FALSE, data |-> ""]
CommentLine == [prefix |-> FALSE, data |-> ": keep-alive"]
BadJsonLine == [prefix |-> TRUE, data |-> "{\"choi"]
EmptyObjectLine == [prefix |-> TRUE, data |-> "{}"]
DoneLine == [prefix |-> TRUE, data |-> "[DONE]"]
\* a JSON object with choices (candidates, in the native protocol)
ChunkLine == [prefix |-> TRUE, data |-> "{chunk}"]

\* json.loads(data_str) returns
IsJson(data) == data \in {"{}", "{chunk}"}

\* chunk.get("choices") and chunk.get("candidates") are truthy
HasChoices(data) == data = "{chunk}"

\* the sentinel of openai_request taken for one more line that is not JSON
OpenAILineKindNoSentinel(l) ==
    IF l = EmptyLine THEN "continue"
    ELSE IF ~l.prefix THEN "continue"
    ELSE IF ~IsJson(l.data) THEN "continue"
    ELSE IF ~HasChoices(l.data) THEN "continue"
    ELSE "chunk"

\* a line without choices taken for the end of the stream
OpenAILineKindStopsAtSkip(l) ==
    IF l = EmptyLine THEN "continue"
    ELSE IF ~l.prefix THEN "continue"
    ELSE IF l.data = "[DONE]" THEN "break"
    ELSE IF ~IsJson(l.data) THEN "continue"
    ELSE IF ~HasChoices(l.data) THEN "break"
    ELSE "chunk"

\* what openai_request does with a line before it looks into the chunk
OpenAILineKind(l) ==
    IF l = EmptyLine THEN "continue"
    ELSE IF ~l.prefix THEN "continue"
    ELSE IF l.data = "[DONE]" THEN "break"
    ELSE IF ~IsJson(l.data) THEN "continue"
    ELSE IF ~HasChoices(l.data) THEN "continue"
    ELSE "chunk"

\* what gemini_request does with a line before it looks into the chunk
GeminiLineKind(l) ==
    IF l = EmptyLine THEN "continue"
    ELSE IF ~l.prefix THEN "continue"
    ELSE IF ~IsJson(l.data) THEN "continue"
    ELSE IF ~HasChoices(l.data) THEN "continue"
    ELSE "chunk"

----------------------------------------------------------------------------
(* openai_request: the body of the loop *)

\* for one line that holds a delta
OpenAIDelta(s, delta) ==
    LET s1 == TakeSignature(s, delta.sig)
    IN  IF ~IsNone(delta.content) THEN FeedText(s1, Val(delta.content)) ELSE {s1}

\* for one line l, which holds delta when it holds a chunk
OpenAIRead(s, l, delta) ==
    LET kind == OpenAILineKind(l)
    IN  IF kind = "continue" THEN {s}
        ELSE IF kind = "break" THEN { [s EXCEPT !.stop = TRUE] }
        ELSE OpenAIDelta(s, delta)

----------------------------------------------------------------------------
(* map_gemini_to_internal *)

Finish == <<"f", "i", "n", "i", "s", "h">>
Long_Press == <<"L", "o", "n", "g", "_", "P", "r", "e", "s", "s">>
Double_Tap == <<"D", "o", "u", "b", "l", "e", "_", "T", "a", "p">>

\* s.replace("_", " ")
ReplaceUnderscores(s) == [i \in 1..Len(s) |-> IF s[i] = "_" THEN " " ELSE s[i]]

\* phone_agent.actions.handler.do(**kwargs)
do(kwargs) == [kind |-> "do", args |-> kwargs]

\* phone_agent.actions.handler.finish(**kwargs)
finish(kwargs) == [kind |-> "finish", args |-> kwargs]

\* name.replace("_", " ") if name in ["Long_Press", "Double_Tap"] else name
InternalName(name) ==
    IF name \in {Long_Press, Double_Tap} THEN ReplaceUnderscores(name) ELSE name

\* JSON values that are not objects: null and an array
JsonNull == [json |-> "null"]
JsonArray == [json |-> "array"]

\* **args unpacks args: it has to be a mapping
IsMapping(args) == args \notin {JsonNull, JsonArray}

\* the result is None with raised set when the call raises: **args is a
\* TypeError when args is not a mapping, and do(action=..., **args) is one when
\* args has the key "action" too
map_gemini_to_internal(name, args) ==
    IF ~IsMapping(args) THEN [raised |-> TRUE, value |-> None]
    ELSE IF name = Finish THEN [raised |-> FALSE, value |-> Some(finish(args))]
    ELSE IF "action" \in DOMAIN args THEN [raised |-> TRUE, value |-> None]
    ELSE [raised |-> FALSE,
          value  |-> Some(do([action |-> InternalName(name)] @@ args))]

----------------------------------------------------------------------------
(* gemini_request: the body of the loop over the parts of one chunk *)

\* the thought appended to the raw text and kept from the buffer
GeminiThoughtNotScanned(s, part) ==
    IF part.thought # EmptyStr
    THEN FirstToken([s EXCEPT !.raw_content = @ \o part.thought])
    ELSE {s}

\* thought = part.get("thought"); if thought: ...
GeminiThought(s, part) ==
    IF part.thought # EmptyStr THEN FeedText(s, part.thought) ELSE {s}

\* fc.get("args", {})
GetArgs(call) == IF "args" \in DOMAIN call THEN call.args ELSE [k \in {} |-> 0]

\* the id of the call kept when the next call has none
ToolCallIdKeepsEarlier(s, call) ==
    IF IsNone(call.id) THEN s.tool_call_id ELSE call.id

\* tool_call_id = fc.get("id")
ToolCallId(s, call) == call.id

\* if "functionCall" in part: ...
GeminiFunctionCall(s, part) ==
    IF IsNone(part.call) THEN {s}
    ELSE LET call == Val(part.call)
             mapped == map_gemini_to_internal(call.name, GetArgs(call))
             s1 == [s EXCEPT !.fc = part.call, !.tool_call_id = ToolCallId(s, call)]
         IN  IF mapped.raised THEN { [s1 EXCEPT !.raised = TRUE] }
             ELSE LET s2 == [s1 EXCEPT !.structured_action = mapped.value]
                  IN  IF ~s2.in_action_phase
                      THEN ThinkingEnd([s2 EXCEPT !.in_action_phase = TRUE,
                                                  !.newlines = @ + 1])
                      ELSE {s2}

\* if "text" in part: ...
GeminiText(s, part) ==
    IF ~IsNone(part.text) THEN FeedText(s, Val(part.text)) ELSE {s}

GeminiPart(s, part) ==
    Then(Then(GeminiThought(TakeSignature(s, part.sig), part),
              LAMBDA s1 : GeminiFunctionCall(s1, part)),
         LAMBDA s2 : GeminiText(s2, part))

\* for part in parts: ...
RECURSIVE GeminiParts(_, _)
GeminiParts(s, parts) ==
    IF parts = << >> THEN {s}
    ELSE Then(GeminiPart(s, Head(parts)), LAMBDA s1 : GeminiParts(s1, Tail(parts)))

\* the body of the loop for one line l, which holds parts when it holds a chunk
GeminiRead(s, l, parts) ==
    IF GeminiLineKind(l) = "continue" THEN {s} ELSE GeminiParts(s, parts)

----------------------------------------------------------------------------
(* What the server sends *)

Abc == <<"a", "b", "c">>

StreamPieces == { Abc, <<" ">>, <<"d">>, DO_MARKER, FINISH_MARKER }

\* the texts a server streams
StreamTexts == {Concat(ps) : ps \in PieceSeqs(StreamPieces, MaxPieces)}

\* the signatures a server attaches; the last one is the empty str
Signatures == {Some("sig1"), Some("sig2"), Some("")}

Tap == <<"T", "a", "p">>
Swipe == <<"S", "w", "i", "p", "e">>

\* functionCall objects: a tap with an id, a finish without one, and a tap
\* whose args carry an "action" key of their own
TapCall == [name |-> Tap, args |-> [element |-> <<500, 500>>], id |-> Some("call1")]
FinishCall == [name |-> Finish, args |-> [message |-> "ok"], id |-> None]
ClashCall == [name |-> Tap, args |-> [action |-> Swipe], id |-> Some("call2")]
\* a tap whose args are null, and a call without args
NullArgsCall == [name |-> Tap, args |-> JsonNull, id |-> Some("call3")]
Back == <<"B", "a", "c", "k">>
BackCall == [name |-> Back, id |-> None]
StreamCalls == {TapCall, FinishCall, ClashCall, NullArgsCall, BackCall}

\* the delta objects that can come next: an optional signature and an optional
\* content, which is the next k characters of the text
Deltas(r) ==
    { [sig |-> sig, content |-> content, used |-> IF IsNone(content) THEN 0 ELSE Len(Val(content))]
        : sig \in {None} \cup server.sigs,
          content \in {None} \cup {Some(Take(r, k)) : k \in 0..Len(r)} }

\* a delta with neither a signature nor content
NoDelta == [sig |-> None, content |-> None, used |-> 0]

NoPart == [sig |-> None, thought |-> EmptyStr, call |-> None, text |-> None]

\* a chunk without parts
NoChunk == [parts |-> << >>, used |-> 0]

\* the chunks that can come next from a server that puts any text in any
\* channel, each a list of parts: a part holds a signature, the next k
\* characters as text or as thought, a function call, a function call with
\* text, a thought with text, or a signature with text; a chunk holds one part,
\* a function call part and a text part, or two parts with a signature each
AnyChunks(r) ==
    { [parts |-> <<[NoPart EXCEPT !.sig = sig]>>, used |-> 0] : sig \in server.sigs }
    \cup { [parts |-> <<[NoPart EXCEPT !.text = Some(Take(r, k))]>>, used |-> k]
            : k \in 0..Len(r) }
    \cup { [parts |-> <<[NoPart EXCEPT !.thought = Take(r, k)]>>, used |-> k]
            : k \in 1..Len(r) }
    \cup { [parts |-> <<[NoPart EXCEPT !.call = Some(c)]>>, used |-> 0]
            : c \in server.calls }
    \cup { [parts |-> <<[NoPart EXCEPT !.call = Some(c), !.text = Some(Take(r, k))]>>,
            used |-> k] : c \in server.calls \cap {TapCall}, k \in 1..Len(r) }
    \cup { [parts |-> <<[NoPart EXCEPT !.thought = Take(r, 1),
                                       !.text = Some(SubSeq(r, 2, k))]>>,
            used |-> k] : k \in 2..Len(r) }
    \cup { [parts |-> <<[NoPart EXCEPT !.sig = sig, !.text = Some(Take(r, k))]>>,
            used |-> k] : sig \in server.sigs \cap {Some("sig1")}, k \in 1..Len(r) }
    \cup { [parts |-> <<[NoPart EXCEPT !.call = Some(c)],
                        [NoPart EXCEPT !.text = Some(Take(r, k))]>>,
            used |-> k] : c \in server.calls \cap {FinishCall}, k \in 1..Len(r) }
    \cup { [parts |-> <<[NoPart EXCEPT !.sig = sig1], [NoPart EXCEPT !.sig = sig2]>>,
            used |-> 0] : sig1, sig2 \in server.sigs }

\* the chunks that can come next from a server that sends the first character
\* of its text as thought and the others as text
ThoughtFirstChunks(r) ==
    IF raw_content = EmptyStr
    THEN { [parts |-> <<[NoPart EXCEPT !.thought = Take(r, 1)]>>, used |-> 1]
            : k \in 1..Len(r) }
    ELSE { [parts |-> <<[NoPart EXCEPT !.text = Some(Take(r, k))]>>, used |-> k]
            : k \in 1..Len(r) }

\* the chunks that can come next from a server that sends the last character
\* of its text as thought and the others as text
ThoughtLastChunks(r) ==
    { [parts |-> <<[NoPart EXCEPT !.text = Some(Take(r, k))]>>, used |-> k]
        : k \in 1..(Len(r) - 1) }
    \cup { [parts |-> <<[NoPart EXCEPT !.thought = r]>>, used |-> 1]
            : k \in {1} \cap {Len(r)} }

\* the chunks that can come next
Chunks(r) ==
    IF server.thought = "first" THEN ThoughtFirstChunks(r)
    ELSE IF server.thought = "last" THEN ThoughtLastChunks(r)
    ELSE AnyChunks(r)

\* the texts of fewer pieces
ShortTexts == {Concat(ps) : ps \in PieceSeqs(StreamPieces, MaxPieces - 1)}

\* the texts streamed along with function calls
CallTexts == {EmptyStr, <<" ">>, DO_MARKER}

\* the lines a server puts between its chunks
OtherLines == {EmptyLine, CommentLine, BadJsonLine, EmptyObjectLine, DoneLine}

\* the status codes a server answers with
StatusCodes == {200, 304, 404, 500}

\* the values of config.api_type
ApiTypes == {"openai", "gemini", "Gemini"}

\* what a server sends in one request: a status, a text, cut into fragments,
\* the signatures and function calls it attaches, the lines it puts between
\* the chunks, the channel it sends text in and the time it takes, in ticks of
\* the clock.  Every text is streamed bare in no time; the short texts are
\* also streamed bare in up to MaxTime ticks, with signatures and with lines
\* between the chunks.  In the native protocol, which alone has them, three
\* texts are streamed with function calls, in up to MaxTime ticks, the empty
\* text is streamed with signatures and function calls, and the short texts
\* are also streamed with one character, the first or the last, as thought and
\* the others as text.  The empty text is the body of the answers other than
\* 200.
Servers(api) ==
    LET server200 == [status |-> 200, text |-> EmptyStr, sigs |-> {}, calls |-> {},
                      lines |-> {}, thought |-> "any", ticks |-> 0]
    IN  { [server200 EXCEPT !.text = t]
            : t \in IF api \in {"openai", "gemini"} THEN StreamTexts ELSE ShortTexts }
        \cup { [server200 EXCEPT !.text = t, !.ticks = MaxTime] : t \in ShortTexts }
        \cup { [server200 EXCEPT !.text = t, !.sigs = Signatures]
                : t \in IF api \in {"openai", "gemini"} THEN ShortTexts ELSE {} }
        \cup { [server200 EXCEPT !.text = t, !.lines = OtherLines]
                : t \in IF api \in {"openai", "gemini"} THEN ShortTexts ELSE {} }
        \cup { [server200 EXCEPT !.text = t, !.calls = StreamCalls, !.ticks = MaxTime]
                : t \in IF api = "gemini" THEN CallTexts ELSE {} }
        \cup { [server200 EXCEPT !.sigs = Signatures, !.calls = StreamCalls]
                : t \in IF api = "gemini" THEN {EmptyStr} ELSE {} }
        \cup { [server200 EXCEPT !.text = t, !.thought = order]
                : t \in IF api = "gemini" THEN ShortTexts ELSE {},
                  order \in {"first", "last"} }
        \cup { [server200 EXCEPT !.status = code] : code \in StatusCodes }

\* the first and the last non-empty signature among those carried so far and
\* those of sigs, in order
RECURSIVE Carry(_, _)
Carry(c, sigs) ==
    IF sigs = << >> THEN c
    ELSE LET sig == Head(sigs)
             c1 == IF sig \in {None, Some("")} THEN c
                   ELSE [c EXCEPT !.first = IF IsNone(c.first) THEN sig ELSE c.first,
                                  !.last = sig]
         IN  Carry(c1, Tail(sigs))

\* the same with the first function call among those of calls
RECURSIVE CarryCall(_, _)
CarryCall(c, calls) ==
    IF calls = << >> THEN c
    ELSE CarryCall(IF IsNone(c.call) /\ ~IsNone(Head(calls))
                   THEN [c EXCEPT !.call = Head(calls)] ELSE c,
                   Tail(calls))

----------------------------------------------------------------------------
(* Spec: one call of ModelClient.request *)

Init ==
    /\ pc = "request"
    /\ api_type \in ApiTypes
    /\ adapter = None
    /\ http_requests = 0
    /\ exception = None
    /\ line = None
    /\ carried = [first |-> None, last |-> None, call |-> None]
    /\ \E srv \in Servers(api_type) :
          /\ rest = srv.text
          /\ server = [status |-> srv.status, sigs |-> srv.sigs,
                       calls |-> srv.calls, lines |-> srv.lines,
                       thought |-> srv.thought, ticks |-> srv.ticks]
    /\ raw_content = EmptyStr
    /\ buffer = EmptyStr
    /\ printed = EmptyStr
    /\ newlines = 0
    /\ in_action_phase = FALSE
    /\ first_token_received = FALSE
    /\ time_to_first_token = None
    /\ time_to_thinking_end = None
    /\ total_time = None
    /\ thought_signature = None
    /\ structured_action = None
    /\ tool_call_id = None
    /\ fc = None
    /\ now = 0
    /\ thinking = EmptyStr
    /\ action = EmptyStr
    /\ messages = << >>
    /\ next_msg = 1
    /\ contents = << >>
    /\ system_instruction = None
    /\ message = None
    /\ state = InitialState
    /\ threads = NoThreads

\* the locals of the running adapter; raised when an exception leaves the loop,
\* stop when a break does
Locals ==
    [raw_content |-> raw_content, buffer |-> buffer, printed |-> printed,
     newlines |-> newlines, in_action_phase |-> in_action_phase,
     first_token_received |-> first_token_received,
     time_to_first_token |-> time_to_first_token,
     time_to_thinking_end |-> time_to_thinking_end,
     thought_signature |-> thought_signature,
     structured_action |-> structured_action,
     tool_call_id |-> tool_call_id, fc |-> fc, now |-> now, raised |-> FALSE,
     stop |-> FALSE]

\* the locals after one pass of the loop; an exception leaves the adapter and
\* request, a break leaves the loop
Store(s) ==
    /\ raw_content' = s.raw_content
    /\ buffer' = s.buffer
    /\ printed' = s.printed
    /\ newlines' = s.newlines
    /\ in_action_phase' = s.in_action_phase
    /\ first_token_received' = s.first_token_received
    /\ time_to_first_token' = s.time_to_first_token
    /\ time_to_thinking_end' = s.time_to_thinking_end
    /\ thought_signature' = s.thought_signature
    /\ structured_action' = s.structured_action
    /\ tool_call_id' = s.tool_call_id
    /\ fc' = s.fc
    /\ now' = s.now
    /\ exception' = IF s.raised THEN Some("TypeError") ELSE exception
    /\ pc' = IF s.raised THEN "error" ELSE IF s.stop THEN "returned" ELSE "streaming"

scanner == <<raw_content, buffer, printed, newlines, in_action_phase,
             first_token_received, time_to_first_token, time_to_thinking_end,
             thought_signature, structured_action, tool_call_id, fc, now>>

\* the adapter chosen by every value but "openai"
SelectAdapterNativeUnlessOpenAI(api) ==
    IF api = "openai" THEN "openai_request" ELSE "gemini_request"

\* if self.config.api_type == "gemini": gemini_request(...) else: openai_request(...)
SelectAdapter(api) ==
    IF api = "gemini" THEN "gemini_request" ELSE "openai_request"

\* response.raise_for_status() raises HTTPError for the client and the server
\* error codes
RaisesForStatus(code) == 400 <= code /\ code < 600

\* request calls the adapter, requests.post answers and raise_for_status
\* returns: the locals are set
PostOk ==
    /\ pc = "request"
    /\ ~RaisesForStatus(server.status)
    /\ adapter' = Some(SelectAdapter(api_type))
    /\ http_requests' = http_requests + 1
    /\ pc' = "streaming"
    /\ UNCHANGED <<messages, next_msg, contents, system_instruction, message, state, threads, api_type, exception, line, carried, rest, scanner, server,
                   total_time, thinking, action>>

\* request calls the adapter, requests.post answers and raise_for_status raises
PostFails ==
    /\ pc = "request"
    /\ RaisesForStatus(server.status)
    /\ adapter' = Some(SelectAdapter(api_type))
    /\ http_requests' = http_requests + 1
    /\ exception' = Some("HTTPError")
    /\ pc' = "error"
    /\ UNCHANGED <<messages, next_msg, contents, system_instruction, message, state, threads, api_type, line, carried, rest, scanner, server, total_time,
                   thinking, action>>

\* openai_request reads a line
OpenAILine ==
    /\ pc = "streaming"
    /\ adapter = Some("openai_request")
    /\ \E l \in server.lines \cup {ChunkLine} :
          \E delta \in IF l = ChunkLine THEN Deltas(rest) ELSE {NoDelta} :
              /\ line' = Some(l)
              /\ rest' = Drop(rest, delta.used)
              /\ carried' = Carry(carried, <<delta.sig>>)
              /\ \E s \in OpenAIRead(Locals, l, delta) : Store(s)
    /\ UNCHANGED <<messages, next_msg, contents, system_instruction, message, state, threads, api_type, adapter, http_requests, server, total_time,
                   thinking, action>>

\* gemini_request reads a line
GeminiLine ==
    /\ pc = "streaming"
    /\ adapter = Some("gemini_request")
    /\ \E l \in server.lines \cup {ChunkLine} :
          \E chunk \in IF l = ChunkLine THEN Chunks(rest) ELSE {NoChunk} :
              /\ line' = Some(l)
              /\ rest' = Drop(rest, chunk.used)
              /\ carried' = CarryCall(
                    Carry(carried, [i \in 1..Len(chunk.parts) |-> chunk.parts[i].sig]),
                    [i \in 1..Len(chunk.parts) |-> chunk.parts[i].call])
              /\ \E s \in GeminiRead(Locals, l, chunk.parts) : Store(s)
    /\ UNCHANGED <<messages, next_msg, contents, system_instruction, message, state, threads, api_type, adapter, http_requests, server, total_time,
                   thinking, action>>

\* the server closes the stream: iter_lines is exhausted and the adapter returns
EndOfStream ==
    /\ pc = "streaming"
    /\ line' = None
    /\ pc' = "returned"
    /\ UNCHANGED <<messages, next_msg, contents, system_instruction, message, state, threads, api_type, adapter, http_requests, exception, carried, rest,
                   scanner, server, total_time, thinking, action>>

\* the response built from a stream that broke
StreamFailsReturnsPartial ==
    /\ pc = "streaming"
    /\ line' = None
    /\ exception' = Some("ChunkedEncodingError")
    /\ total_time' = Some(now)
    /\ LET parsed == parse_response(raw_content)
       IN  thinking' = parsed.thinking /\ action' = parsed.action
    /\ pc' = "error"
    /\ UNCHANGED <<messages, next_msg, contents, system_instruction, message, state, threads, api_type, adapter, http_requests, carried, rest, scanner,
                   server>>

\* the connection breaks: iter_lines raises, and nothing catches it
StreamFails ==
    /\ pc = "streaming"
    /\ line' = None
    /\ exception' = Some("ChunkedEncodingError")
    /\ pc' = "error"
    /\ UNCHANGED <<messages, next_msg, contents, system_instruction, message, state, threads, api_type, adapter, http_requests, carried, rest, scanner,
                   server, total_time, thinking, action>>

\* the adapter has returned: request computes total_time, parses raw_content
\* and returns the ModelResponse
Return ==
    /\ pc = "returned"
    /\ \E t \in now..server.ticks :
          /\ total_time' = Some(t)
          /\ now' = t
    /\ LET parsed == parse_response(raw_content)
       IN  thinking' = parsed.thinking /\ action' = parsed.action
    /\ pc' = "done"
    /\ UNCHANGED <<messages, next_msg, contents, system_instruction, message, state, threads, api_type, adapter, http_requests, exception, line, carried,
                   rest, raw_content, buffer, printed, newlines,
                   in_action_phase, first_token_received, time_to_first_token,
                   time_to_thinking_end, thought_signature, structured_action,
                   tool_call_id, fc, server>>

Next ==
    \/ PostOk
    \/ PostFails
    \/ OpenAILine
    \/ GeminiLine
    \/ EndOfStream
    \/ StreamFails
    \/ Return

Spec == Init /\ [][Next]_vars

----------------------------------------------------------------------------
(* MapSpec: map_gemini_to_internal applied to one function call *)

Type_Name == <<"T", "y", "p", "e", "_", "N", "a", "m", "e">>
Call_API == <<"C", "a", "l", "l", "_", "A", "P", "I">>
Take_over == <<"T", "a", "k", "e", "_", "o", "v", "e", "r">>
Launch == <<"L", "a", "u", "n", "c", "h">>

MapNames ==
    { Finish, Long_Press, Double_Tap, Type_Name, Call_API, Take_over, Tap,
      Launch, Swipe, <<"L", "o", "n", "g", " ", "P", "r", "e", "s", "s">>,
      <<"_">>, EmptyStr }

NoArgs == [k \in {} |-> 0]

MapArgs ==
    { NoArgs, [element |-> <<500, 500>>], [message |-> "ok"],
      [element |-> <<500, 500>>, message |-> "ok"], [app |-> "Messages"],
      [action |-> Swipe], [action |-> Tap, element |-> <<500, 500>>] }

MapInit ==
    /\ pc = "map_call"
    /\ fc \in {Some([name |-> n, args |-> a, id |-> None]) : n \in MapNames, a \in MapArgs}
    /\ api_type = "gemini"
    /\ adapter = None
    /\ http_requests = 0
    /\ exception = None
    /\ line = None
    /\ carried = [first |-> None, last |-> None, call |-> None]
    /\ rest = EmptyStr
    /\ raw_content = EmptyStr
    /\ buffer = EmptyStr
    /\ printed = EmptyStr
    /\ newlines = 0
    /\ in_action_phase = FALSE
    /\ first_token_received = FALSE
    /\ time_to_first_token = None
    /\ time_to_thinking_end = None
    /\ total_time = None
    /\ thought_signature = None
    /\ structured_action = None
    /\ tool_call_id = None
    /\ server = [status |-> 200, sigs |-> {}, calls |-> {}, lines |-> {},
                 thought |-> "any", ticks |-> 0]
    /\ now = 0
    /\ thinking = EmptyStr
    /\ action = EmptyStr
    /\ messages = << >>
    /\ next_msg = 1
    /\ contents = << >>
    /\ system_instruction = None
    /\ message = None
    /\ state = InitialState
    /\ threads = NoThreads

MapCall ==
    /\ pc = "map_call"
    /\ LET mapped == map_gemini_to_internal(Val(fc).name, Val(fc).args)
       IN  /\ structured_action' = mapped.value
           /\ pc' = IF mapped.raised THEN "map_raise" ELSE "map_return"
    /\ UNCHANGED <<messages, next_msg, contents, system_instruction, message, state, threads, api_type, adapter, http_requests, exception, line, carried,
                   rest, raw_content, buffer, printed, newlines,
                   in_action_phase, first_token_received, time_to_first_token,
                   time_to_thinking_end, total_time, thought_signature,
                   tool_call_id, fc, server, now, thinking, action>>

MapNext == MapCall

MapSpec == MapInit /\ [][MapNext]_vars

----------------------------------------------------------------------------
(* gemini_request: the history converted to the native format *)

\* largest number of messages in a history
MaxMessages == 3

\* the content of a message: absent, a string, or a list of items
Absent == [kind |-> "absent"]
Str(text) == [kind |-> "str", text |-> text]
List(items) == [kind |-> "list", items |-> items]

\* JSON documents of the fixtures
EmptyObjectText == <<"{", "}">>
XObjectText == <<"{", "\"", "x", "\"", ":", "1", "}">>
NullText == <<"n", "u", "l", "l">>
BadJsonText == <<"{", "o", "o", "p", "s">>
OkText == <<"o", "k">>

\* json.loads: None when it raises, else the value.  The documents decoded
\* are those of the fixtures, with the whitespace JSON allows around them;
\* every other text of the fixtures is not a JSON document.
JsonLoads(s) ==
    LET t == Strip(s)
    IN  IF t = EmptyObjectText THEN Some(NoArgs)
        ELSE IF t = XObjectText THEN Some([x |-> 1])
        ELSE IF t = NullText THEN Some(JsonNull)
        ELSE None

DataUrl == <<"d", "a", "t", "a", ":", "i", "m", "a", "g", "e", "/", "p", "n", "g", ";", "b", "a", "s", "e", "6", "4", ",", "Q", "Q", "=", "=">>
HttpUrl == <<"h", "t", "t", "p", ":", "/", "/", "h", "/", "i", ".", "p", "n", "g">>
DataPrefix == <<"d", "a", "t", "a", ":">>

\* header.split(";")[0].split(":")[1] and data of url.split(",", 1), for a url
\* that has a comma and whose header has a colon
InlineData(url) ==
    LET halves == Split1(url, <<",">>)
        scheme == Split1(halves[1], <<";">>)[1]
    IN  [mime_type |-> Split1(Split1(scheme, <<":">>)[2], <<":">>)[1],
         data      |-> halves[2]]

\* the parts one item of a content list adds
ItemParts(item) ==
    IF item.type = "text" THEN <<[text |-> item.text]>>
    ELSE IF item.type = "image_url" /\ StartsWith(item.url, DataPrefix)
         THEN <<[inline_data |-> InlineData(item.url)]>>
    ELSE << >>

\* the parts built from msg.get("content")
ContentParts(content) ==
    IF content.kind = "str"
    THEN IF Strip(content.text) # EmptyStr THEN <<[text |-> content.text]>> ELSE << >>
    ELSE IF content.kind = "list"
    THEN Concat([i \in 1..Len(content.items) |-> ItemParts(content.items[i])])
    ELSE << >>

\* args of an echoed tool call: the decoded arguments, {} when decoding raises
EchoedArgs(tc) ==
    LET loaded == JsonLoads(IF IsNone(tc.arguments) THEN EmptyObjectText
                            ELSE Val(tc.arguments))
    IN  IF IsNone(loaded) THEN NoArgs ELSE Val(loaded)

\* the functionCall parts of msg.get("tool_calls")
ToolCallParts(tool_calls) ==
    [i \in 1..Len(tool_calls) |->
        [functionCall |-> [name |-> tool_calls[i].name,
                           args |-> EchoedArgs(tool_calls[i])]]]

\* res_content of a tool message
ToolResult(msg) ==
    IF msg.content.kind = "absent" THEN Val(JsonLoads(EmptyObjectText))
    ELSE IF msg.content.kind = "list" THEN [result |-> msg.content.items]
    ELSE LET loaded == JsonLoads(msg.content.text)
         IN  IF IsNone(loaded) THEN [result |-> msg.content.text] ELSE Val(loaded)

\* the contents entry of a tool message
FunctionResponseEntry(msg) ==
    [role  |-> "user",
     parts |-> <<[functionResponse |-> [name |-> msg.name,
                                        response |-> ToolResult(msg)]]>>]

\* the signature of the message put on the first part, when there is one
SignedParts(msg, parts) ==
    IF Truthy(msg.sig) /\ parts # << >>
    THEN [parts EXCEPT ![1] = @ @@ ("thought_signature" :> Val(msg.sig))]
    ELSE parts

\* the role of the message kept as it is
GeminiRoleKept(role) == role

GeminiRole(role) == IF role = "user" THEN "user" ELSE "model"

\* the tool branch without its continue: the message goes on to the role
\* mapping as well
SerializeToolFallsThrough(msg) ==
    LET parts == SignedParts(msg, ContentParts(msg.content) \o ToolCallParts(msg.tool_calls))
        entry == [role |-> GeminiRole(msg.role), parts |-> parts]
    IN  IF msg.role = "system"
        THEN [entries |-> << >>, system |-> Some([parts |-> parts])]
        ELSE IF msg.role = "tool"
        THEN [entries |-> <<FunctionResponseEntry(msg), entry>>, system |-> None]
        ELSE [entries |-> <<entry>>, system |-> None]

\* one pass of the loop over messages: the entries appended to contents and
\* the system instruction assigned (None when none is assigned)
Serialize(msg) ==
    LET parts == ContentParts(msg.content) \o ToolCallParts(msg.tool_calls)
    IN  IF msg.role = "tool"
        THEN [entries |-> <<FunctionResponseEntry(msg)>>, system |-> None]
        ELSE IF msg.role = "system"
        THEN [entries |-> << >>, system |-> Some([parts |-> SignedParts(msg, parts)])]
        ELSE [entries |-> <<[role  |-> GeminiRole(msg.role),
                             parts |-> SignedParts(msg, parts)]>>,
              system  |-> None]

\* the messages of the histories
TextItem == [type |-> "text", text |-> OkText]
SystemMessage ==
    [role |-> "system", content |-> Str(OkText), name |-> None,
     tool_calls |-> << >>, sig |-> None]
SystemBlankMessage ==
    [role |-> "system", content |-> Str(<<" ">>), name |-> None,
     tool_calls |-> << >>, sig |-> None]
UserMessage ==
    [role |-> "user", content |-> List(<<[type |-> "image_url", url |-> DataUrl], TextItem>>),
     name |-> None, tool_calls |-> << >>, sig |-> None]
UserLinkMessage ==
    [role |-> "user", content |-> List(<<[type |-> "image_url", url |-> HttpUrl], TextItem>>),
     name |-> None, tool_calls |-> << >>, sig |-> None]
AssistantMessage ==
    [role |-> "assistant", content |-> Str(OkText), name |-> None,
     tool_calls |-> <<[name |-> Tap, arguments |-> Some(XObjectText)]>>,
     sig |-> Some("sig1")]
AssistantBlankMessage ==
    [role |-> "assistant", content |-> Str(<<" ">>), name |-> None,
     tool_calls |-> <<[name |-> Tap, arguments |-> Some(BadJsonText)]>>,
     sig |-> Some("sig1")]
AssistantNullArgsMessage ==
    [role |-> "assistant", content |-> Str(EmptyStr), name |-> None,
     tool_calls |-> <<[name |-> Tap, arguments |-> Some(NullText)],
                      [name |-> Back, arguments |-> None]>>,
     sig |-> None]
AssistantEmptyMessage ==
    [role |-> "assistant", content |-> Str(EmptyStr), name |-> None,
     tool_calls |-> << >>, sig |-> Some("sig2")]
ToolMessage ==
    [role |-> "tool", content |-> Str(XObjectText), name |-> Some(Tap),
     tool_calls |-> << >>, sig |-> None]
ToolTextMessage ==
    [role |-> "tool", content |-> Str(OkText), name |-> Some(Tap),
     tool_calls |-> << >>, sig |-> None]
ToolAbsentMessage ==
    [role |-> "tool", content |-> Absent, name |-> Some(Back),
     tool_calls |-> << >>, sig |-> None]
ToolLoadedMessage ==
    [role |-> "tool", content |-> List(<<TextItem>>), name |-> Some(Tap),
     tool_calls |-> <<[name |-> Tap, arguments |-> Some(XObjectText)]>>,
     sig |-> Some("sig1")]
ToolSignedMessage ==
    [role |-> "tool", content |-> Str(OkText), name |-> Some(Tap),
     tool_calls |-> <<[name |-> Tap, arguments |-> None]>>,
     sig |-> Some("sig1")]

Messages ==
    { SystemMessage, SystemBlankMessage, UserMessage, UserLinkMessage, AssistantMessage,
      AssistantBlankMessage, AssistantNullArgsMessage, AssistantEmptyMessage,
      ToolMessage, ToolTextMessage, ToolAbsentMessage, ToolLoadedMessage,
      ToolSignedMessage }

Histories == UNION {[1..k -> Messages] : k \in 0..MaxMessages}

SerializeInit ==
    /\ pc = "serialize"
    /\ messages \in Histories
    /\ next_msg = 1
    /\ contents = << >>
    /\ system_instruction = None
    /\ api_type = "gemini"
    /\ adapter = None
    /\ http_requests = 0
    /\ exception = None
    /\ line = None
    /\ carried = [first |-> None, last |-> None, call |-> None]
    /\ rest = EmptyStr
    /\ raw_content = EmptyStr
    /\ buffer = EmptyStr
    /\ printed = EmptyStr
    /\ newlines = 0
    /\ in_action_phase = FALSE
    /\ first_token_received = FALSE
    /\ time_to_first_token = None
    /\ time_to_thinking_end = None
    /\ total_time = None
    /\ thought_signature = None
    /\ structured_action = None
    /\ tool_call_id = None
    /\ fc = None
    /\ server = [status |-> 200, sigs |-> {}, calls |-> {}, lines |-> {},
                 thought |-> "any", ticks |-> 0]
    /\ now = 0
    /\ thinking = EmptyStr
    /\ action = EmptyStr
    /\ message = None
    /\ state = InitialState
    /\ threads = NoThreads

\* one pass of the loop over messages
SerializeMessage ==
    /\ pc = "serialize"
    /\ next_msg <= Len(messages)
    /\ LET out == Serialize(messages[next_msg])
       IN  /\ contents' = contents \o out.entries
           /\ system_instruction' =
                  IF IsNone(out.system) THEN system_instruction ELSE out.system
    /\ next_msg' = next_msg + 1
    /\ UNCHANGED <<messages, message, state, threads, api_type, adapter, http_requests, exception, pc,
                   line, carried, rest, scanner, server, total_time,
                   thinking, action>>

\* the loop over messages ends
SerializeDone ==
    /\ pc = "serialize"
    /\ next_msg > Len(messages)
    /\ pc' = "post"
    /\ UNCHANGED <<history, message, state, threads, api_type, adapter, http_requests, exception,
                   line, carried, rest, scanner, server, total_time,
                   thinking, action>>

SerializeNext == SerializeMessage \/ SerializeDone

SerializeSpec == SerializeInit /\ [][SerializeNext]_vars

----------------------------------------------------------------------------
(* BuilderSpec: MessageBuilder.create_user_message and                        *)
(* MessageBuilder.remove_images_from_message.  A message is a record with the  *)
(* fields of the history messages; a key the message does not have is None    *)
(* or the empty list.                                                         *)

ImageUrlPrefix == <<"d", "a", "t", "a", ":", "i", "m", "a", "g", "e", "/", "p", "n", "g", ";", "b", "a", "s", "e", "6", "4", ",">>

\* create_user_message(text, image_base64): the image item is added when
\* image_base64 is neither None nor ''
create_user_message(text, image_base64) ==
    LET image == IF ~IsNone(image_base64) /\ Val(image_base64) # EmptyStr
                 THEN <<[type |-> "image_url", url |-> ImageUrlPrefix \o Val(image_base64)]>>
                 ELSE << >>
    IN  [role |-> "user",
         content |-> List(image \o <<[type |-> "text", text |-> text]>>),
         name |-> None, tool_calls |-> << >>, sig |-> None]

\* the items that are not images kept, whatever their type
RemoveImagesKeepsOthers(msg) ==
    IF msg.content.kind = "list"
    THEN [msg EXCEPT !.content =
             List(SelectSeq(msg.content.items, LAMBDA item : item.type # "image_url"))]
    ELSE msg

\* if isinstance(message.get("content"), list): content = [the text items]
remove_images_from_message(msg) ==
    IF msg.content.kind = "list"
    THEN [msg EXCEPT !.content =
             List(SelectSeq(msg.content.items, LAMBDA item : item.type = "text"))]
    ELSE msg

\* the arguments of create_user_message
BuilderTexts == StreamTexts \cup {OkText}
BuilderImages == {None, Some(EmptyStr), Some(<<"Q", "Q", "=", "=">>), Some(<<"A">>)}

\* messages with several images, with an item of another type, with no item
AudioItem == [type |-> "input_audio", data |-> <<"A">>]
TwoImagesMessage ==
    [role |-> "user",
     content |-> List(<<[type |-> "image_url", url |-> DataUrl], TextItem,
                        [type |-> "image_url", url |-> HttpUrl], TextItem>>),
     name |-> None, tool_calls |-> << >>, sig |-> None]
AudioMessage ==
    [role |-> "user",
     content |-> List(<<AudioItem, TextItem, [type |-> "image_url", url |-> DataUrl]>>),
     name |-> None, tool_calls |-> << >>, sig |-> None]
ImageOnlyMessage ==
    [role |-> "user", content |-> List(<<[type |-> "image_url", url |-> DataUrl]>>),
     name |-> None, tool_calls |-> << >>, sig |-> None]
NoItemMessage ==
    [role |-> "user", content |-> List(<< >>),
     name |-> None, tool_calls |-> << >>, sig |-> None]

\* the messages remove_images_from_message is given
GivenMessages ==
    Messages \cup {TwoImagesMessage, AudioMessage, ImageOnlyMessage, NoItemMessage}

BuilderInit ==
    /\ pc \in {"builder", "given"}
    /\ IF pc = "given" THEN message \in {Some(m) : m \in GivenMessages}
       ELSE message = None
    /\ state = InitialState
    /\ threads = NoThreads
    /\ messages = << >>
    /\ next_msg = 1
    /\ contents = << >>
    /\ system_instruction = None
    /\ api_type = "openai"
    /\ adapter = None
    /\ http_requests = 0
    /\ exception = None
    /\ line = None
    /\ carried = [first |-> None, last |-> None, call |-> None]
    /\ rest = EmptyStr
    /\ raw_content = EmptyStr
    /\ buffer = EmptyStr
    /\ printed = EmptyStr
    /\ newlines = 0
    /\ in_action_phase = FALSE
    /\ first_token_received = FALSE
    /\ time_to_first_token = None
    /\ time_to_thinking_end = None
    /\ total_time = None
    /\ thought_signature = None
    /\ structured_action = None
    /\ tool_call_id = None
    /\ fc = None
    /\ server = [status |-> 200, sigs |-> {}, calls |-> {}, lines |-> {},
                 thought |-> "any", ticks |-> 0]
    /\ now = 0
    /\ thinking = EmptyStr
    /\ action = EmptyStr

\* message = MessageBuilder.create_user_message(text, image_base64)
CreateUserMessage ==
    /\ pc = "builder"
    /\ \E text \in BuilderTexts, image \in BuilderImages :
          message' = Some(create_user_message(text, image))
    /\ pc' = "created"
    /\ UNCHANGED <<history, state, threads, api_type, adapter, http_requests,
                   exception, line, carried, rest, scanner, server, total_time,
                   thinking, action>>

\* MessageBuilder.remove_images_from_message(message), which changes the
\* message in place
RemoveImages ==
    /\ pc \in {"created", "given", "removed"}
    /\ message' = Some(remove_images_from_message(Val(message)))
    /\ pc' = IF pc = "removed" THEN "removed_twice" ELSE "removed"
    /\ UNCHANGED <<history, state, threads, api_type, adapter, http_requests,
                   exception, line, carried, rest, scanner, server, total_time,
                   thinking, action>>

BuilderNext == CreateUserMessage \/ RemoveImages

BuilderSpec == BuilderInit /\ [][BuilderNext]_vars

----------------------------------------------------------------------------
(* ConsoleSpec: the /start request of the web console and the threads that    *)
(* run run_agent_thread.  The server is a socketserver.TCPServer, which       *)
(* handles one request at a time; a thread runs beside it, one statement of   *)
(* run_agent_thread at a time.                                                *)

\* the task of a /start request: absent or given
Tasks == {"", "task"}

\* what agent.step returns, when it returns: the task finished or not, the
\* action done or not
StepResults ==
    { [finished |-> FALSE, success |-> TRUE],
      [finished |-> TRUE, success |-> TRUE],
      [finished |-> FALSE, success |-> FALSE] }

\* the entry _update_step appends for a result
StepEntry(result) ==
    [thinking |-> "thinking", action |-> Some("action"), message |-> "message",
     success |-> result.success]

\* the entry appended when an exception is caught; its thinking is the text
\* of the exception after a fixed prefix, its message a fixed text
ErrorEntry ==
    [thinking |-> "error", action |-> None, message |-> "stopped",
     success |-> FALSE]

Alive(w) == threads[w].pc # "idle"

\* the loop goes on while the history is not longer than max_steps
ContinueLoopInclusive(t, h) == ~t.finished /\ Len(h) <= t.max_steps

\* while not result.finished and len(state['history']) < agent_cfg.max_steps
ContinueLoop(t, h) == ~t.finished /\ Len(h) < t.max_steps

ConsoleInit ==
    /\ pc = "console"
    /\ state = InitialState
    /\ threads = NoThreads
    /\ message = None
    /\ messages = << >>
    /\ next_msg = 1
    /\ contents = << >>
    /\ system_instruction = None
    /\ api_type = "openai"
    /\ adapter = None
    /\ http_requests = 0
    /\ exception = None
    /\ line = None
    /\ carried = [first |-> None, last |-> None, call |-> None]
    /\ rest = EmptyStr
    /\ raw_content = EmptyStr
    /\ buffer = EmptyStr
    /\ printed = EmptyStr
    /\ newlines = 0
    /\ in_action_phase = FALSE
    /\ first_token_received = FALSE
    /\ time_to_first_token = None
    /\ time_to_thinking_end = None
    /\ total_time = None
    /\ thought_signature = None
    /\ structured_action = None
    /\ tool_call_id = None
    /\ fc = None
    /\ server = [status |-> 200, sigs |-> {}, calls |-> {}, lines |-> {},
                 thought |-> "any", ticks |-> 0]
    /\ now = 0
    /\ thinking = EmptyStr
    /\ action = EmptyStr

\* what the console leaves alone
idle_pipeline ==
    <<history, message, api_type, adapter, http_requests, exception, pc, line,
      carried, rest, scanner, server, total_time, thinking, action>>

\* do_GET for /start: the config is replaced, and a thread is started when a
\* task is given and state['running'] is false.  No more than MaxWorkers
\* threads are alive at a time.
Start ==
    \E task \in Tasks, n \in 0..MaxSteps :
        LET starts == task # "" /\ ~state.running
            free == {w \in Workers : ~Alive(w)}
        IN  /\ starts => free # {}
            /\ state' = [state EXCEPT !.config = [max_steps |-> n]]
            /\ threads' =
                  IF starts
                  THEN LET new == CHOOSE w \in free : \A v \in free : w <= v
                       IN  [w \in Workers |->
                              IF w = new
                              THEN [pc |-> "start", task |-> task, max_steps |-> n,
                                    finished |-> FALSE, success |-> FALSE,
                                    alone |-> free = Workers]
                              ELSE IF Alive(w) THEN [threads[w] EXCEPT !.alone = FALSE]
                              ELSE threads[w]]
                  ELSE threads
            /\ UNCHANGED idle_pipeline

\* state['running'] = True
SetRunning(w) ==
    /\ threads[w].pc = "start"
    /\ state' = [state EXCEPT !.running = TRUE]
    /\ threads' = [threads EXCEPT ![w].pc = "clear"]
    /\ UNCHANGED idle_pipeline

\* state['history'] = []
ClearHistory(w) ==
    /\ threads[w].pc = "clear"
    /\ state' = [state EXCEPT !.history = << >>]
    /\ threads' = [threads EXCEPT ![w].pc = "task"]
    /\ UNCHANGED idle_pipeline

\* state['current_task'] = task
SetTask(w) ==
    /\ threads[w].pc = "task"
    /\ state' = [state EXCEPT !.current_task = threads[w].task]
    /\ threads' = [threads EXCEPT ![w].pc = "construct"]
    /\ UNCHANGED idle_pipeline

\* the configs and the agent are made and the agent reset, or one of these
\* raises
Construct(w) ==
    /\ threads[w].pc = "construct"
    /\ \E next \in {"step", "except"} : threads' = [threads EXCEPT ![w].pc = next]
    /\ UNCHANGED <<state, idle_pipeline>>

\* result = agent.step(...): it returns a result or raises
Step(w) ==
    /\ threads[w].pc = "step"
    /\ \/ \E result \in StepResults :
             threads' = [threads EXCEPT ![w].pc = "update",
                                        ![w].finished = result.finished,
                                        ![w].success = result.success]
       \/ threads' = [threads EXCEPT ![w].pc = "except"]
    /\ UNCHANGED <<state, idle_pipeline>>

\* _update_step(result)
UpdateStep(w) ==
    /\ threads[w].pc = "update"
    /\ state' = [state EXCEPT !.history = Append(@, StepEntry(threads[w]))]
    /\ threads' = [threads EXCEPT ![w].pc = "loop"]
    /\ UNCHANGED idle_pipeline

\* the test of the while loop
LoopTest(w) ==
    /\ threads[w].pc = "loop"
    /\ threads' = [threads EXCEPT ![w].pc =
                      IF ContinueLoop(threads[w], state.history) THEN "step" ELSE "finish"]
    /\ UNCHANGED <<state, idle_pipeline>>

\* except Exception as e: state['history'].append(...)
Except(w) ==
    /\ threads[w].pc = "except"
    /\ state' = [state EXCEPT !.history = Append(@, ErrorEntry)]
    /\ threads' = [threads EXCEPT ![w].pc = "finish"]
    /\ UNCHANGED idle_pipeline

\* state['running'] = False, and the thread ends
SetStopped(w) ==
    /\ threads[w].pc = "finish"
    /\ state' = [state EXCEPT !.running = FALSE]
    /\ threads' = [threads EXCEPT ![w] = IdleThread]
    /\ UNCHANGED idle_pipeline

\* one statement of the thread w
Worker(w) ==
    \/ SetRunning(w)
    \/ ClearHistory(w)
    \/ SetTask(w)
    \/ Construct(w)
    \/ Step(w)
    \/ UpdateStep(w)
    \/ LoopTest(w)
    \/ Except(w)
    \/ SetStopped(w)

ConsoleNext == Start \/ \E w \in Workers : Worker(w)

ConsoleSpec == ConsoleInit /\ [][ConsoleNext]_vars

\* every thread that can take a step does take one
ConsoleFairSpec == ConsoleSpec /\ \A w \in Workers : WF_vars(Worker(w))

----------------------------------------------------------------------------
(* Properties of the scanner and of the request (Spec) *)

\* the text received and not printed: the action text when the scanner is in
\* the action phase
Unprinted == Drop(raw_content, Len(printed))

\* the number of places of s at which a call marker occurs
MarkerCount(s) ==
    Cardinality(Occurrences(s, FINISH_MARKER)) + Cardinality(Occurrences(s, DO_MARKER))

AbcDoMarker == Abc \o DO_MARKER

\* C1: no non-empty proper prefix of a marker is ever printed as thinking text
\* when the text received after it completes the marker, however the text is
\* cut into fragments: what is printed is the beginning of the text received,
\* and no marker starts inside the printed text and ends after it.  Whenever
\* 'abc' + 'do(action=' has been received in text fragments, exactly 'abc' has
\* been printed and the scanner is in the action phase.
NoMarkerPrefixPrinted ==
    /\ printed = Take(raw_content, Len(printed))
    /\ \A m \in 1..Len(action_markers) :
          \A i \in 1..(Len(action_markers[m]) - 1) :
              ~(/\ EndsWith(printed, Take(action_markers[m], i))
                /\ StartsWith(Unprinted, Drop(action_markers[m], i)))
    /\ (raw_content = AbcDoMarker /\ IsNone(fc)) =>
          (printed = Abc /\ in_action_phase)

\* 'abcdo(acti' has been fed, 'on=' is still to come, and nothing is printed
NoMarkerPrefixPrintedWitness ==
    /\ pc = "streaming"
    /\ raw_content = Take(AbcDoMarker, Len(AbcDoMarker) - 3)
    /\ rest = Drop(AbcDoMarker, Len(AbcDoMarker) - 3)
    /\ buffer = raw_content
    /\ printed = EmptyStr
    /\ ~in_action_phase

\* C2 as stated: for a text with exactly one marker occurrence, however it was
\* cut, the thinking text the scanner printed and the text from the marker on
\* are the thinking and the action _parse_response returns.
ScannerEqualsParserAsStated ==
    (pc = "done" /\ MarkerCount(raw_content) = 1 /\ IsNone(fc)) =>
        /\ in_action_phase
        /\ printed = thinking
        /\ Unprinted = action

\* C2 amended: for a text with exactly one marker occurrence, however it was
\* cut, the scanner and _parse_response split at the same place, the marker:
\* the parser's thinking is the printed thinking text with surrounding
\* whitespace trimmed, and the parser's action is the text from the marker on
\* with '</answer>' removed and surrounding whitespace trimmed.
ScannerSplitsWhereParserDoes ==
    (pc = "done" /\ MarkerCount(raw_content) = 1 /\ IsNone(fc)) =>
        /\ in_action_phase
        /\ StartsWith(Unprinted, FINISH_MARKER) \/ StartsWith(Unprinted, DO_MARKER)
        /\ Strip(printed) = thinking
        /\ Strip(Remove(Unprinted, ANSWER_CLOSE)) = action

\* a text with a blank before its only marker has been streamed, the blank
\* flushed before the marker came, and the response parsed
ScannerSplitsWhereParserDoesWitness ==
    /\ pc = "done"
    /\ MarkerCount(raw_content) = 1
    /\ IsNone(fc)
    /\ in_action_phase
    /\ printed = <<" ">>
    /\ thinking = EmptyStr
    /\ Len(buffer) < Len(raw_content)
    /\ StartsWith(action, DO_MARKER)

\* C3: in a completed response in which the three durations are present,
\* time_to_first_token <= time_to_thinking_end <= total_time.
TimestampsOrdered ==
    (/\ pc = "done"
     /\ ~IsNone(time_to_first_token)
     /\ ~IsNone(time_to_thinking_end)
     /\ ~IsNone(total_time))
        => /\ Val(time_to_first_token) <= Val(time_to_thinking_end)
           /\ Val(time_to_thinking_end) <= Val(total_time)

\* the part of C3 the code does meet: the order holds when no function call
\* came before the first text
TimestampsOrderedWithoutCall ==
    (/\ pc = "done"
     /\ IsNone(fc)
     /\ ~IsNone(time_to_first_token)
     /\ ~IsNone(time_to_thinking_end))
        => /\ Val(time_to_first_token) <= Val(time_to_thinking_end)
           /\ Val(time_to_thinking_end) <= Val(total_time)

\* C4: when the stream has ended with text held back as a possible marker
\* prefix and no full marker received, the held-back text has been printed as
\* thinking text and is not in the action.
WithheldTextFlushedAtEnd ==
    (/\ pc = "done"
     /\ ~in_action_phase
     /\ buffer # EmptyStr
     /\ ~HasCallMarker(raw_content))
        => /\ printed = raw_content
           /\ ~Contains(action, buffer)

\* the structured action the tap fixture maps to
TapAction == [kind |-> "do", args |-> [action |-> Tap, element |-> <<500, 500>>]]

\* C5: once a functionCall part has been handled the scanner is in the action
\* phase, the phase-transition timestamp is set and the call is mapped to a
\* structured action; the tap fixture handled before any text gives a 'do'
\* action with action 'Tap' and element [500, 500].
FunctionCallForcesActionPhase ==
    /\ ~IsNone(fc) =>
          /\ in_action_phase
          /\ ~IsNone(time_to_thinking_end)
          /\ ~IsNone(structured_action)
    /\ (fc = Some(TapCall) /\ raw_content = EmptyStr) =>
          (in_action_phase /\ structured_action = Some(TapAction))

\* the part of C5 the code does meet: the same, for the calls that
\* map_gemini_to_internal maps without raising
FunctionCallForcesActionPhaseUnlessRaised ==
    /\ (~IsNone(fc) /\ pc # "error") =>
          /\ in_action_phase
          /\ ~IsNone(time_to_thinking_end)
          /\ ~IsNone(structured_action)
    /\ (fc = Some(TapCall) /\ raw_content = EmptyStr) =>
          (in_action_phase /\ structured_action = Some(TapAction))

\* C11: a response whose raw text is empty or all whitespace has empty
\* thinking and empty action, in both protocols, and building it raises
\* nothing: once the adapter has returned such a text request can return.
BlankTextGivesEmptyResponse ==
    /\ (pc = "done" /\ Strip(raw_content) = EmptyStr) =>
          /\ thinking = EmptyStr
          /\ action = EmptyStr
          /\ IsNone(exception)
    /\ (pc = "returned" /\ Strip(raw_content) = EmptyStr) => ENABLED Return

\* the native adapter has received a single blank and the response is built
BlankTextGivesEmptyResponseWitness ==
    /\ pc = "done"
    /\ adapter = Some("gemini_request")
    /\ raw_content = <<" ">>
    /\ first_token_received
    /\ thinking = EmptyStr
    /\ action = EmptyStr

\* C12: once the scanner is in the action phase it stays there, whatever is
\* read next.
ActionPhaseNeverReverts == [][in_action_phase => in_action_phase']_vars

\* text has been received after the phase began, and the phase has lasted
ActionPhaseNeverRevertsWitness ==
    /\ pc = "done"
    /\ in_action_phase
    /\ Len(raw_content) > Len(printed) + Len(buffer)
    /\ MarkerCount(raw_content) = 1

\* C13: the first-token and the phase-transition durations are written at most
\* once: once either has a value no step changes it.
TimestampsWrittenOnce ==
    [][/\ ~IsNone(time_to_first_token) => time_to_first_token' = time_to_first_token
       /\ ~IsNone(time_to_thinking_end) => time_to_thinking_end' = time_to_thinking_end]_vars

\* both durations were taken at clock 0, with the first text and the tap; the
\* marker and the finish call came after them and the clock moved on before
\* the end
TimestampsWrittenOnceWitness ==
    /\ pc = "done"
    /\ carried.call = Some(TapCall)
    /\ fc = Some(FinishCall)
    /\ raw_content = DO_MARKER
    /\ printed = EmptyStr
    /\ time_to_first_token = Some(0)
    /\ time_to_thinking_end = Some(0)
    /\ total_time = Some(1)

\* the lines an adapter skips: empty, without the data prefix, not JSON, or
\* a JSON object without choices (candidates); to gemini_request the [DONE]
\* line is one more line that is not JSON
SkippedLines ==
    IF adapter = Some("gemini_request")
    THEN {EmptyLine, CommentLine, BadJsonLine, EmptyObjectLine, DoneLine}
    ELSE {EmptyLine, CommentLine, BadJsonLine, EmptyObjectLine}

\* C14: a step in which an adapter reads a line that is empty, lacks the data
\* prefix, is not JSON or is a JSON object without choices (candidates) leaves
\* the raw text, the buffer, the phase, the durations, the signature and the
\* structured action as they were, and leaves the adapter in its loop.
SkippedLineChangesNothing ==
    [][(pc = "streaming" /\ line' \in {Some(l) : l \in SkippedLines}) =>
            (pc' = "streaming" /\ UNCHANGED <<scanner, rest, carried>>)]_vars

\* a line that is not JSON has been skipped by openai_request between 'do'
\* and the rest of the marker: 'do' is still held back and the loop goes on
SkippedLineChangesNothingWitness ==
    /\ pc = "streaming"
    /\ adapter = Some("openai_request")
    /\ line = Some(BadJsonLine)
    /\ raw_content = Take(DO_MARKER, 2)
    /\ buffer = raw_content
    /\ rest = Drop(DO_MARKER, 2)
    /\ ~in_action_phase

\* C15 as stated: an answer with a status outside 200..299 ends the request
\* with the transport error before any line is read and without a response,
\* and one HTTP request is made per call.
Non2xxAborts ==
    pc # "request" =>
        /\ http_requests = 1
        /\ server.status \notin 200..299 =>
              /\ pc = "error"
              /\ exception = Some("HTTPError")
              /\ IsNone(line)
              /\ IsNone(total_time)

\* the part of C15 the code does meet: the same for the statuses 400..599
ErrorStatusAborts ==
    pc # "request" =>
        /\ http_requests = 1
        /\ server.status \in 400..599 =>
              /\ pc = "error"
              /\ exception = Some("HTTPError")
              /\ IsNone(line)
              /\ IsNone(total_time)

\* C16: request ends with a response or with an exception, never both: a
\* response is built only after the adapter has returned from a stream that
\* ended, and is complete; when an exception ended the request no response was
\* built, whatever text had been received.
ResponseOrError ==
    /\ pc = "done" =>
          /\ IsNone(exception)
          /\ line \in {None, Some(DoneLine)}
          /\ ~IsNone(total_time)
          /\ [thinking |-> thinking, action |-> action] = parse_response(raw_content)
    /\ ~IsNone(exception) <=> pc = "error"
    /\ pc = "error" =>
          /\ IsNone(total_time)
          /\ thinking = EmptyStr
          /\ action = EmptyStr

\* the stream broke after 'abc' had been received and printed, with the
\* marker still to come
ResponseOrErrorWitness ==
    /\ pc = "error"
    /\ exception = Some("ChunkedEncodingError")
    /\ raw_content = Abc
    /\ rest = DO_MARKER
    /\ IsNone(total_time)

\* C17: the signature held is the last non-empty one a delta or part read so
\* far carried, and none is held exactly when none was carried.
SignatureLastWriteWins ==
    pc \in {"streaming", "returned", "done"} =>
        /\ thought_signature = carried.last
        /\ IsNone(thought_signature) <=> IsNone(carried.first)

\* 'sig1' was carried first and the response holds 'sig2'
SignatureLastWriteWinsWitness ==
    /\ pc = "done"
    /\ carried.first = Some("sig1")
    /\ thought_signature = Some("sig2")

\* the locals s with the signature sig taken, when it is not empty
WithSignature(s, sig) ==
    IF sig \in {None, Some("")} THEN s ELSE [s EXCEPT !.thought_signature = sig]

\* C18: whatever the state of the scanner, reading a delta or a part that
\* carries a signature and no text, thought or function call changes the held
\* signature and nothing else.
SignatureOnlyChangesSignature ==
    pc = "streaming" =>
        \A sig \in Signatures :
            /\ adapter = Some("openai_request") =>
                  OpenAIRead(Locals, ChunkLine, [NoDelta EXCEPT !.sig = sig])
                      = { WithSignature(Locals, sig) }
            /\ adapter = Some("gemini_request") =>
                  GeminiRead(Locals, ChunkLine, <<[NoPart EXCEPT !.sig = sig]>>)
                      = { WithSignature(Locals, sig) }

\* a signature has been taken from a part, text is held back and nothing else
\* has happened
SignatureOnlyChangesSignatureWitness ==
    /\ pc = "streaming"
    /\ carried.last = Some("sig2")
    /\ thought_signature = Some("sig2")
    /\ raw_content = Take(DO_MARKER, 1)
    /\ buffer = raw_content
    /\ ~in_action_phase
    /\ IsNone(time_to_thinking_end)

\* C19: once openai_request has read the [DONE] line it reads no more: no
\* later step changes the raw text, the signature, the phase, the durations
\* or what is left of the stream.
NothingReadAfterDone ==
    [][(adapter = Some("openai_request") /\ line = Some(DoneLine)) =>
            (/\ pc' # "streaming"
             /\ UNCHANGED <<raw_content, thought_signature, in_action_phase,
                            time_to_first_token, time_to_thinking_end, line,
                            rest, buffer, printed>>)]_vars

\* the sentinel came after 'do' with the rest of the marker still to come,
\* and the response holds 'do'
NothingReadAfterDoneWitness ==
    /\ pc = "done"
    /\ adapter = Some("openai_request")
    /\ line = Some(DoneLine)
    /\ raw_content = Take(DO_MARKER, 2)
    /\ rest = Drop(DO_MARKER, 2)
    /\ action = raw_content

\* C20: one adapter is called per request, gemini_request when api_type is
\* "gemini" and openai_request for every other value, and a response that
\* came through openai_request has no structured action and no tool call id.
AdapterSelectedByApiType ==
    /\ pc = "request" => IsNone(adapter)
    /\ pc # "request" =>
          adapter = Some(IF api_type = "gemini" THEN "gemini_request"
                         ELSE "openai_request")
    /\ (pc = "done" /\ api_type # "gemini") =>
          (IsNone(structured_action) /\ IsNone(tool_call_id))

\* a request configured with 'Gemini' went through openai_request
AdapterSelectedByApiTypeWitness ==
    /\ pc = "done"
    /\ api_type = "Gemini"
    /\ adapter = Some("openai_request")
    /\ raw_content = DO_MARKER
    /\ IsNone(structured_action)

\* the calls whose args are absent, null or not a mapping
HasNoArgumentMapping(call) == "args" \notin DOMAIN call \/ ~IsMapping(call.args)

\* C22 as stated, for the functionCall parts of the stream: a call whose args
\* are absent, null or not a mapping is mapped with an empty argument mapping
\* and raises nothing.
UnparseableArgsAreEmpty ==
    (~IsNone(fc) /\ HasNoArgumentMapping(Val(fc))) =>
        /\ exception # Some("TypeError")
        /\ structured_action = Some(do([action |-> Val(fc).name]))

\* the part of C22 the stream handling does meet: a call without args
AbsentArgsAreEmpty ==
    fc = Some(BackCall) =>
        /\ exception # Some("TypeError")
        /\ structured_action = Some(do([action |-> Back]))

\* C23: the tool call id and the structured action held are those of the last
\* functionCall part read: the id is that call's id, absent when it has none,
\* whatever the calls before it carried.
ToolCallIdFromLastCall ==
    pc \in {"streaming", "returned", "done"} =>
        IF IsNone(fc) THEN IsNone(tool_call_id) /\ IsNone(structured_action)
        ELSE /\ tool_call_id = Val(fc).id
             /\ structured_action =
                    map_gemini_to_internal(Val(fc).name, GetArgs(Val(fc))).value

\* the tap with id 'call1' came first, the finish without id last, and the
\* response holds the finish action and no id
ToolCallIdFromLastCallWitness ==
    /\ pc = "done"
    /\ carried.call = Some(TapCall)
    /\ fc = Some(FinishCall)
    /\ IsNone(tool_call_id)
    /\ structured_action = Some(finish([message |-> "ok"]))

\* s is a non-empty proper prefix of a marker
IsMarkerPrefix(s) ==
    \E m \in 1..Len(action_markers) :
        \E i \in 1..(Len(action_markers[m]) - 1) : s = Take(action_markers[m], i)

\* C25 as stated: in the thinking phase only a suffix that is a non-empty
\* proper prefix of a marker is withheld, all text before it being emitted at
\* once: the pending buffer is empty or such a prefix.
OnlyMarkerPrefixWithheld ==
    (pc = "streaming" /\ ~in_action_phase) =>
        (buffer = EmptyStr \/ IsMarkerPrefix(buffer))

\* the part of C25 the code does meet: the pending buffer is empty, or ends in
\* a non-empty proper prefix of a marker
WithheldBufferEndsInMarkerPrefix ==
    (pc = "streaming" /\ ~in_action_phase) =>
        (buffer = EmptyStr \/ IsPotentialMarker(buffer))

\* C26: in the action phase a step only appends the text it reads to the raw
\* text: nothing is printed, and the buffer, the phase and the phase-transition
\* duration stay as they are.
ActionPhaseTextOnlyAppended ==
    [][in_action_phase =>
          /\ raw_content' \o rest' = raw_content \o rest
          /\ printed' = printed
          /\ newlines' = newlines
          /\ buffer' = buffer
          /\ in_action_phase'
          /\ time_to_thinking_end' = time_to_thinking_end]_vars

\* 'abc' came after the marker: it is in the raw text, nothing was printed and
\* the buffer is as the marker left it
ActionPhaseTextOnlyAppendedWitness ==
    /\ pc = "done"
    /\ adapter = Some("openai_request")
    /\ raw_content = DO_MARKER \o Abc
    /\ buffer = DO_MARKER
    /\ printed = EmptyStr
    /\ newlines = 1

\* a part with the text a, in the text or in the thought channel
TextPart(a) == [NoPart EXCEPT !.text = Some(a)]
ThoughtPart(a) == [NoPart EXCEPT !.thought = a]

\* the places to cut the text still to come in two: after its first and before
\* its last character
TwoCuts(r) == {1, Len(r) - 1} \cap 1..(Len(r) - 1)

EmptyDeltaChangesNothing ==
    (pc = "streaming" /\ adapter = Some("openai_request")) =>
        \A content \in {None, Some(EmptyStr)} :
            OpenAIRead(Locals, ChunkLine, [NoDelta EXCEPT !.content = content])
                = {Locals}

\* the part of C28 the code does meet: a delta without content
AbsentContentChangesNothing ==
    (pc = "streaming" /\ adapter = Some("openai_request")) =>
        OpenAIRead(Locals, ChunkLine, NoDelta) = {Locals}

\* C30: the text is taken in the order it comes, nothing lost or doubled: each
\* step appends what it reads of the stream to the raw text; what has been
\* printed is the beginning of the raw text; and in the thinking phase the
\* printed text followed by the buffer is the raw text.
TextInArrivalOrder ==
    /\ [](/\ printed = Take(raw_content, Len(printed))
          /\ ~in_action_phase => printed \o buffer = raw_content)
    /\ [][raw_content' \o rest' = raw_content \o rest]_vars

\* gemini_request has printed 'abc' and holds 'do' back
TextInArrivalOrderWitness ==
    /\ pc = "streaming"
    /\ adapter = Some("gemini_request")
    /\ ~in_action_phase
    /\ printed = Abc
    /\ buffer = Take(DO_MARKER, 2)
    /\ raw_content = printed \o buffer
    /\ rest = Drop(DO_MARKER, 2)

\* what a set of scanner states shows of the thinking text emitted and of
\* the phase
Emitted(S) == {[printed |-> s.printed, phase |-> s.in_action_phase] : s \in S}
Phases(S) == {s.in_action_phase : s \in S}

\* the scanner has read nothing yet
NothingRead ==
    /\ pc = "streaming"
    /\ raw_content = EmptyStr
    /\ buffer = EmptyStr
    /\ ~first_token_received
    /\ ~in_action_phase

\* the states of the scanner after the text r in one fragment, and after r
\* cut in two fragments after its k-th character
InOneFragment(r) == FeedText(Locals, r)
InTwoFragments(r, k) ==
    Then(FeedText(Locals, Take(r, k)), LAMBDA s : FeedText(s, Drop(r, k)))

\* C31 as stated: the thinking text emitted and the final phase are those of
\* the text, however it is cut: the text still to come, read in one fragment
\* or cut in two at any place, ends with the same text printed and in the
\* same phase.
FragmentationIndependent ==
    NothingRead =>
        \A k \in 1..(Len(rest) - 1) :
            Emitted(InTwoFragments(rest, k)) = Emitted(InOneFragment(rest))

\* the part of C31 the code does meet: the final phase is that of the text
PhaseIndependentOfFragmentation ==
    NothingRead =>
        \A k \in 1..(Len(rest) - 1) :
            Phases(InTwoFragments(rest, k)) = Phases(InOneFragment(rest))

\* C32: in openai_request the scanner is in the action phase, with the
\* phase-transition duration set, exactly when the raw text received holds a
\* call marker, which is exactly when _parse_response splits it by rule 1 or 2.
MarkerNeverMissed ==
    (adapter = Some("openai_request") /\ pc \in {"streaming", "returned", "done"}) =>
        /\ in_action_phase <=> HasCallMarker(raw_content)
        /\ ~IsNone(time_to_thinking_end) <=> HasCallMarker(raw_content)
        /\ HasCallMarker(raw_content) <=>
              \E m \in 1..Len(MarkerRules) :
                  /\ Contains(raw_content, MarkerRules[m])
                  /\ parse_response(raw_content) = SplitAtMarker(raw_content, MarkerRules[m])

\* the do marker came in two fragments after a blank: the phase flipped, the
\* blank was printed and the parser split at the marker
MarkerNeverMissedWitness ==
    /\ pc = "done"
    /\ adapter = Some("openai_request")
    /\ raw_content = <<" ">> \o DO_MARKER
    /\ in_action_phase
    /\ printed = <<" ">>
    /\ newlines = 1
    /\ ~IsNone(time_to_thinking_end)
    /\ thinking = EmptyStr
    /\ action = DO_MARKER

\* C33: at every point the phase-transition duration is set exactly when the
\* scanner is in the action phase, the first-token duration exactly when the
\* first-token flag is set, and a non-empty raw text has the first-token
\* duration set.
TimestampsFollowFlags ==
    /\ ~IsNone(time_to_thinking_end) <=> in_action_phase
    /\ ~IsNone(time_to_first_token) <=> first_token_received
    /\ raw_content # EmptyStr => ~IsNone(time_to_first_token)

\* gemini_request read a function call before any text: it is in the action
\* phase with the phase-transition duration set and no first token
TimestampsFollowFlagsWitness ==
    /\ pc = "streaming"
    /\ adapter = Some("gemini_request")
    /\ ~IsNone(fc)
    /\ in_action_phase
    /\ ~IsNone(time_to_thinking_end)
    /\ raw_content = EmptyStr
    /\ ~first_token_received
    /\ IsNone(time_to_first_token)

----------------------------------------------------------------------------
(* Properties of map_gemini_to_internal (MapSpec) *)

LongPressInternal == <<"L", "o", "n", "g", " ", "P", "r", "e", "s", "s">>
DoubleTapInternal == <<"D", "o", "u", "b", "l", "e", " ", "T", "a", "p">>

\* the action name the claim gives for a function name
ClaimedName(name) ==
    IF name = Long_Press THEN LongPressInternal
    ELSE IF name = Double_Tap THEN DoubleTapInternal
    ELSE name

\* the given arguments with the action name added
ClaimedArgs(call) ==
    [k \in DOMAIN call.args \cup {"action"} |->
        IF k = "action" THEN ClaimedName(call.name) ELSE call.args[k]]

\* the structured action the claim gives for a function call
ClaimedAction(call) ==
    IF call.name = Finish THEN [kind |-> "finish", args |-> call.args]
    ELSE [kind |-> "do", args |-> ClaimedArgs(call)]

\* C6: for every function name and argument mapping, 'finish' gives the
\* termination action with the arguments unchanged, 'Long_Press' and
\* 'Double_Tap' give a 'do' action named 'Long Press' and 'Double Tap', and
\* every other name gives a 'do' action that carries the name unchanged,
\* merged with the arguments.
MapsEveryCall ==
    pc # "map_call" =>
        /\ pc = "map_return"
        /\ structured_action = Some(ClaimedAction(Val(fc)))

\* the part of C6 the code does meet: the same, for arguments without a key
\* "action", or with the name 'finish'
MapsEveryCallWithoutActionKey ==
    (/\ pc # "map_call"
     /\ "action" \notin DOMAIN Val(fc).args \/ Val(fc).name = Finish)
        => /\ pc = "map_return"
           /\ structured_action = Some(ClaimedAction(Val(fc)))

----------------------------------------------------------------------------
(* Properties of _parse_response (ParseSpec) *)

BracketTokens == {THINK_OPEN, THINK_CLOSE, ANSWER_OPEN, ANSWER_CLOSE}

HasBracketToken(s) == \E t \in BracketTokens : Contains(s, t)

\* marker occurs in s at i and nowhere before i
FirstAt(s, marker, i) ==
    /\ OccursAt(s, marker, i)
    /\ \A j \in 1..(i - 1) : ~OccursAt(s, marker, j)

\* the result splits s at position i: the text before i trimmed, the text from
\* i on with the close tag removed and trimmed
SplitsAt(s, i) ==
    /\ thinking = Strip(Take(s, i - 1))
    /\ action = Strip(Remove(Drop(s, i - 1), ANSWER_CLOSE))

\* C7: the rules apply in strict precedence. A text that contains the finish
\* marker is split at its first occurrence, also when the do marker or legacy
\* tags occur in it, even earlier; a text without the finish marker that
\* contains the do marker is split at the first do marker; the legacy rule can
\* only apply when both call markers are absent.
ParsePrecedence ==
    pc = "parse_return" =>
        /\ \A i \in 1..Len(raw_content) :
              FirstAt(raw_content, FINISH_MARKER, i) =>
                  SplitsAt(raw_content, i) /\ StartsWith(action, FINISH_MARKER)
        /\ \A i \in 1..Len(raw_content) :
              (~Contains(raw_content, FINISH_MARKER)
                    /\ FirstAt(raw_content, DO_MARKER, i)) =>
                  SplitsAt(raw_content, i) /\ StartsWith(action, DO_MARKER)

\* a text in which the do marker and an open answer tag come before the finish
\* marker has been split at the finish marker
ParsePrecedenceWitness ==
    /\ pc = "parse_return"
    /\ \E i, j \in 1..Len(raw_content) :
          /\ i < j
          /\ OccursAt(raw_content, DO_MARKER, i)
          /\ FirstAt(raw_content, FINISH_MARKER, j)
          /\ Contains(Take(raw_content, j - 1), ANSWER_OPEN)
          /\ thinking = Strip(Take(raw_content, j - 1))
    /\ StartsWith(action, FINISH_MARKER)

\* raw = P + M + R with M a call marker at position i and no call marker in P
PrefixMarkerRest(s, marker, i) ==
    /\ OccursAt(s, marker, i)
    /\ ~HasCallMarker(Take(s, i - 1))

\* C8 as stated: for raw = P + M + R with no call marker in P, thinking is P
\* trimmed and action is M + R trimmed and close-tag cleaned, starting with M.
ParseSplitsAtFirstMarkerAsStated ==
    pc = "parse_return" =>
        \A marker \in {FINISH_MARKER, DO_MARKER} :
            \A i \in 1..Len(raw_content) :
                PrefixMarkerRest(raw_content, marker, i) =>
                    SplitsAt(raw_content, i) /\ StartsWith(action, marker)

\* C8 amended: for raw = P + M + R with no call marker in P and, when M is the
\* do marker, no finish marker in R, thinking is P trimmed and action is M + R
\* trimmed and close-tag cleaned, starting with M; the launch fixture splits
\* into its prose and its call.
ParseSplitsAtFirstMarker ==
    pc = "parse_return" =>
        /\ \A marker \in {FINISH_MARKER, DO_MARKER} :
              \A i \in 1..Len(raw_content) :
                  (/\ PrefixMarkerRest(raw_content, marker, i)
                   /\ marker = DO_MARKER =>
                        ~Contains(Drop(raw_content, i - 1 + Len(marker)), FINISH_MARKER))
                    => SplitsAt(raw_content, i) /\ StartsWith(action, marker)
        /\ raw_content = LaunchText =>
              thinking = LaunchThinking /\ action = LaunchAction

\* the launch fixture has been parsed
ParseSplitsAtFirstMarkerWitness ==
    /\ pc = "parse_return"
    /\ raw_content = LaunchText
    /\ PrefixMarkerRest(raw_content, DO_MARKER, Len(LaunchThinking) + 2)
    /\ action = LaunchAction

\* C9 as stated: a text with no call marker that contains legacy bracket
\* tokens is split on them and neither half contains a bracket token.
LegacyTokensStripped ==
    (pc = "parse_return" /\ ~HasCallMarker(raw_content) /\ HasBracketToken(raw_content))
        => ~HasBracketToken(thinking) /\ ~HasBracketToken(action)

\* the part of C9 the code does meet: the legacy fixture
LegacyFixtureParsed ==
    (pc = "parse_return" /\ raw_content = LegacyText)
        => thinking = LegacyThinking /\ action = LegacyAction

\* C10: a non-blank text with no marker the parser recognizes is returned
\* whole and unchanged as the action, with empty thinking.
NoMarkerIsAction ==
    (/\ pc = "parse_return"
     /\ Strip(raw_content) # EmptyStr
     /\ ~HasCallMarker(raw_content)
     /\ ~Contains(raw_content, ANSWER_OPEN))
        => thinking = EmptyStr /\ action = raw_content

\* a marker-free text with whitespace at both ends came back whole
NoMarkerIsActionWitness ==
    /\ pc = "parse_return"
    /\ ~HasCallMarker(raw_content)
    /\ ~HasBracketToken(raw_content)
    /\ Len(raw_content) >= 3
    /\ Head(raw_content) \in Whitespace
    /\ raw_content[Len(raw_content)] \in Whitespace
    /\ Strip(raw_content) # EmptyStr
    /\ thinking = EmptyStr
    /\ action = raw_content

----------------------------------------------------------------------------
(* ParseSpec: repeated calls and the action payload *)

MarkerStart(s) ==
    IF Contains(s, FINISH_MARKER) THEN Find(s, FINISH_MARKER) ELSE Find(s, DO_MARKER)

\* the raw text from the marker onward
FromMarker(s) == Drop(s, MarkerStart(s) - 1)

\* s without the whitespace around it and without one close tag at its end
WithoutTrailingCloseTag(s) ==
    LET t == Strip(s)
    IN  IF EndsWith(t, ANSWER_CLOSE)
        THEN Strip(Take(t, Len(t) - Len(ANSWER_CLOSE)))
        ELSE t

\* C29: in rules 1 and 2 the action is the raw text from the marker onward
\* with only a close tag at its end, and the whitespace around it, removed.
ActionKeepsPayload ==
    (pc = "parse_return" /\ ~IsBlank(raw_content) /\ HasCallMarker(raw_content))
        => action = WithoutTrailingCloseTag(FromMarker(raw_content))

\* what holds of C29: the action is that text when the close tag does not
\* occur in the payload before its end
ActionKeepsPayloadWithoutInnerTag ==
    (/\ pc = "parse_return"
     /\ ~IsBlank(raw_content)
     /\ HasCallMarker(raw_content)
     /\ ~Contains(WithoutTrailingCloseTag(FromMarker(raw_content)), ANSWER_CLOSE))
        => action = WithoutTrailingCloseTag(FromMarker(raw_content))

\* a finish call whose message holds the close tag
ActionLosesInnerTag ==
    /\ pc = "parse_return"
    /\ raw_content = FINISH_MARKER \o ANSWER_CLOSE \o <<"x">>
    /\ action = FINISH_MARKER \o <<"x">>

----------------------------------------------------------------------------
(* Properties of the serialization of the history (SerializeSpec) *)

\* C21: a pass of the loop over a message with role 'tool' appends exactly one
\* entry to contents, with role 'user' and one part that has a functionResponse
\* and nothing else, carrying the name of the message and its result (the
\* decoded content, or the content under 'result' when it is not JSON), and
\* assigns no system instruction.
ToolMessageIsOneFunctionResponse ==
    [][(/\ pc = "serialize"
        /\ next_msg <= Len(messages)
        /\ messages[next_msg].role = "tool"
        /\ next_msg' = next_msg + 1)
       => LET msg == messages[next_msg]
              entry == contents'[Len(contents')]
          IN  /\ Len(contents') = Len(contents) + 1
              /\ SubSeq(contents', 1, Len(contents)) = contents
              /\ entry.role = "user"
              /\ Len(entry.parts) = 1
              /\ DOMAIN entry.parts[1] = {"functionResponse"}
              /\ entry.parts[1].functionResponse.name = msg.name
              /\ LET response == entry.parts[1].functionResponse.response
                 IN  \/ msg.content.kind = "absent" /\ response = NoArgs
                     \/ msg.content.kind = "list"
                            /\ response = [result |-> msg.content.items]
                     \/ msg.content.kind = "str"
                            /\ Some(response) = JsonLoads(msg.content.text)
                     \/ msg.content.kind = "str"
                            /\ IsNone(JsonLoads(msg.content.text))
                            /\ response = [result |-> msg.content.text]
              /\ system_instruction' = system_instruction]_vars

ToolMessageIsOneFunctionResponseWitness ==
    /\ pc = "post"
    /\ messages = <<AssistantMessage, ToolSignedMessage>>
    /\ Len(contents) = 2
    /\ contents[1].role = "model"
    /\ contents[2] =
           [role  |-> "user",
            parts |-> <<[functionResponse |->
                            [name |-> Some(Tap), response |-> [result |-> OkText]]]>>]

\* the messages of ms that are not system messages, and those that are
NonSystem(ms) == SelectSeq(ms, LAMBDA m : m.role # "system")
SystemOnly(ms) == SelectSeq(ms, LAMBDA m : m.role = "system")

\* C34: contents holds one entry for each message read that is not a system
\* message, in the order of the history, with role 'user' for the user and
\* tool messages and 'model' for every other; the system instruction is that
\* of the last system message read, and absent when there was none.
ContentsFollowHistory ==
    LET read == SubSeq(messages, 1, next_msg - 1)
        kept == NonSystem(read)
        sys  == SystemOnly(read)
    IN  /\ Len(contents) = Len(kept)
        /\ \A i \in 1..Len(kept) :
              /\ contents[i].role =
                    IF kept[i].role \in {"user", "tool"} THEN "user" ELSE "model"
              /\ <<contents[i]>> = Serialize(kept[i]).entries
        /\ system_instruction =
              IF sys = << >> THEN None
              ELSE Some([parts |-> ContentParts(sys[Len(sys)].content)])

\* two system messages and a tool message: the instruction is that of the
\* second, blank, system message and contents holds the tool entry only
ContentsFollowHistoryWitness ==
    /\ pc = "post"
    /\ messages = <<SystemMessage, SystemBlankMessage, ToolTextMessage>>
    /\ system_instruction = Some([parts |-> << >>])
    /\ Len(contents) = 1
    /\ contents[1].role = "user"

----------------------------------------------------------------------------
(* Properties of MessageBuilder (BuilderSpec) *)

\* the number of text items among items
RECURSIVE TextItems(_)
TextItems(items) ==
    IF items = << >> THEN 0
    ELSE (IF Head(items).type = "text" THEN 1 ELSE 0) + TextItems(Tail(items))

\* C35: remove_images_from_message leaves the text items of a list content,
\* all of them and nothing else, and changes neither a str content nor any
\* other field; a second removal changes nothing; and for every text and
\* image, create_user_message(text, image) without its images is
\* create_user_message(text).
RemoveImagesKeepsText ==
    /\ [][pc' \in {"removed", "removed_twice"} =>
            LET before == Val(message)
                after == Val(message')
            IN  /\ after.role = before.role
                /\ after.name = before.name
                /\ after.tool_calls = before.tool_calls
                /\ after.sig = before.sig
                /\ after.content.kind = before.content.kind
                /\ before.content.kind # "list" => after = before
                /\ before.content.kind = "list" =>
                      /\ \A i \in 1..Len(after.content.items) :
                            after.content.items[i].type = "text"
                      /\ Len(after.content.items) = TextItems(before.content.items)
                /\ pc' = "removed_twice" => after = before]_vars
    /\ [](\A text \in BuilderTexts, image \in BuilderImages :
            remove_images_from_message(create_user_message(text, image))
                = create_user_message(text, None))

\* the message made of 'ok' and an image, with the image removed twice
RemoveImagesKeepsTextWitness ==
    /\ pc = "removed_twice"
    /\ message = Some([UserMessage EXCEPT !.content = List(<<TextItem>>)])

----------------------------------------------------------------------------
(* Properties of the web console (ConsoleSpec, ConsoleFairSpec) *)

AliveThreads == {w \in Workers : Alive(w)}

\* C36 as stated: at most one thread runs run_agent_thread at any time.
AtMostOneWorker == Cardinality(AliveThreads) <= 1

\* the part of C36 the code does meet: no thread is started while
\* state['running'] is true
NoStartWhileRunning ==
    [][state.running =>
          \A w \in Workers : threads'[w].pc = "start" => threads[w].pc = "start"]_vars

\* C37 as stated: every thread started ends, having set state['running'] to
\* false.
WorkerEventuallyStops ==
    \A w \in Workers : Alive(w) ~> ~Alive(w)

\* the part of C37 the code does meet: a thread that no other thread runs
\* beside ends, or is joined by another
AloneWorkerEventuallyStops ==
    \A w \in Workers :
        (Alive(w) /\ threads[w].alone) ~> (~Alive(w) \/ ~threads[w].alone)

\* and an exception caught appends a failure entry before running is set to
\* false
FailureEntryBeforeStop ==
    [][\A w \in Workers :
          (threads[w].pc = "except" /\ threads'[w].pc # "except") =>
              /\ threads'[w].pc = "finish"
              /\ state'.history = Append(state.history, ErrorEntry)
              /\ ~ErrorEntry.success
              /\ state'.running = state.running]_vars

\* C38: for a thread that runs alone with max_steps >= 1, the history is
\* emptied when the run starts, grows by exactly one entry with each step
\* executed and each exception caught and by nothing else, is never longer
\* than max_steps, and no step is executed once a step has reported finished.
HistoryFollowsSteps ==
    /\ [](\A w \in Workers :
            (Alive(w) /\ threads[w].alone /\ threads[w].max_steps >= 1) =>
                /\ threads[w].pc \notin {"start", "clear"} =>
                      Len(state.history) <= threads[w].max_steps
                /\ threads[w].pc = "task" => state.history = << >>
                /\ threads[w].pc = "step" => ~threads[w].finished)
    /\ [][\A w \in Workers :
            (Alive(w) /\ threads[w].alone /\ threads'[w].alone
                /\ threads[w].max_steps >= 1) =>
                IF threads'[w].pc = threads[w].pc THEN state'.history = state.history
                ELSE IF threads[w].pc = "clear" THEN state'.history = << >>
                ELSE IF threads[w].pc \in {"update", "except"}
                THEN /\ Len(state'.history) = Len(state.history) + 1
                     /\ SubSeq(state'.history, 1, Len(state.history)) = state.history
                ELSE state'.history = state.history]_vars

\* a thread alone with max_steps 2 has left the loop at the step limit: two
\* steps, none finished
HistoryFollowsStepsWitness ==
    \E w \in Workers :
        /\ threads[w].pc = "finish"
        /\ threads[w].alone
        /\ threads[w].max_steps = 2
        /\ ~threads[w].finished
        /\ Len(state.history) = 2
        /\ \A i \in 1..2 : state.history[i].action # None

====
